---- MODULE Spec2Model ----
(***************************************************************************)
(* A model of the CBOR codec of rust-cbor (serde port): the Serializer     *)
(* (src/src/serializer.rs), the Deserializer and its CborReader            *)
(* (src/src/deserializer.rs), driven by the value shapes the test suite    *)
(* (src/tests/test_serde.rs) uses.                                         *)
(*                                                                         *)
(* Numbers.  TLC's integers are 32 bit, the codec's are up to 64 bit, so a *)
(* 64-bit quantity is kept as its eight bytes, most significant first      *)
(* (exactly the bytes BigEndian::write_u64 would emit).  A signed value is *)
(* kept as its two's complement pattern sign-extended to 64 bit, which is  *)
(* what `v as i64` produces.  Single bytes and buffer positions are plain  *)
(* naturals.                                                               *)
(***************************************************************************)
EXTENDS Integers, Sequences, FiniteSets, TLC

VARIABLES ser, serLog, de, deLog, rf, num, cur, phase

vars == <<ser, serLog, de, deLog, rf, num, cur, phase>>

(***************************************************************************)
(* Byte patterns                                                           *)
(***************************************************************************)
Byte == 0..255

RECURSIVE BitAnd(_, _)
\* a & b on naturals
BitAnd(a, b) ==
    IF a = 0 \/ b = 0 THEN 0
    ELSE (IF a % 2 = 1 /\ b % 2 = 1 THEN 1 ELSE 0) + 2 * BitAnd(a \div 2, b \div 2)

RECURSIVE BitOr(_, _)
\* a | b on naturals
BitOr(a, b) ==
    IF a = 0 THEN b
    ELSE IF b = 0 THEN a
    ELSE (IF a % 2 = 1 \/ b % 2 = 1 THEN 1 ELSE 0) + 2 * BitOr(a \div 2, b \div 2)

\* (x << k) as u8
Shl8(x, k) == (x * (2 ^ k)) % 256

\* x >> k
Shr(x, k) == x \div (2 ^ k)

\* the 64-bit pattern of a natural below 2^24
Pat(n) == <<0, 0, 0, 0, 0, (n \div 65536) % 256, (n \div 256) % 256, n % 256>>

\* the 64-bit pattern of the negative number -1-n, n a natural below 2^24
NegPat(n) == [i \in 1..8 |-> 255 - Pat(n)[i]]

\* the number of leading zero bytes of a pattern
RECURSIVE LeadingZeros(_)
LeadingZeros(b) ==
    IF b = <<>> \/ b[1] # 0 THEN 0 ELSE 1 + LeadingZeros(Tail(b))

\* the last k bytes of a pattern: `n as u8` (k = 1), the bytes write_u16 (k = 2),
\* write_u32 (k = 4) and write_u64 (k = 8) emit
Low(b, k) == SubSeq(b, Len(b) - k + 1, Len(b))

\* n as u64, from a shorter big-endian unsigned reading
ZeroExt(b) == [i \in 1..(8 - Len(b)) |-> 0] \o b

\* pattern <= a natural below 2^24
LeNat(b, n) == LeadingZeros(b) >= 5 /\ (b[6] * 65536 + b[7] * 256 + b[8]) <= n

\* the natural a pattern below 2^24 stands for
ToNat(b) == b[6] * 65536 + b[7] * 256 + b[8]

\* a pattern read as i64 is negative
IsNeg(b) == b[1] >= 128

\* -1 - n on i64 patterns: two's complement gives the bitwise complement
MinusOneMinus(b) == [i \in 1..8 |-> 255 - b[i]]

\* n - 1 on a nonzero pattern
RECURSIVE Dec(_)
Dec(b) ==
    IF b[Len(b)] > 0 THEN [b EXCEPT ![Len(b)] = @ - 1]
    ELSE Dec(SubSeq(b, 1, Len(b) - 1)) \o <<255>>

IsZero(b) == LeadingZeros(b) = Len(b)

\* a <= b on patterns of the same length
RECURSIVE LePat(_, _)
LePat(a, b) ==
    IF a = <<>> THEN TRUE
    ELSE IF a[1] # b[1] THEN a[1] < b[1]
    ELSE LePat(Tail(a), Tail(b))

\* std::u8::MAX, u16::MAX, u32::MAX as u64
U8_MAX == <<0, 0, 0, 0, 0, 0, 0, 255>>

U16_MAX == <<0, 0, 0, 0, 0, 0, 255, 255>>

U32_MAX == <<0, 0, 0, 0, 255, 255, 255, 255>>

\* std::i8::MAX, i16::MAX, i32::MAX, i64::MAX, as unsigned
I8_MAX == <<0, 0, 0, 0, 0, 0, 0, 127>>

I16_MAX == <<0, 0, 0, 0, 0, 0, 127, 255>>

I32_MAX == <<0, 0, 0, 0, 127, 255, 255, 255>>

I64_MAX == <<127, 255, 255, 255, 255, 255, 255, 255>>

(***************************************************************************)
(* Serializer                                                              *)
(***************************************************************************)
NoError == [kind |-> "none", got |-> ""]

\* Serializer::from_writer_raw over an empty Vec<u8>
from_memory ==
    [buf |-> <<>>, emitting_key |-> FALSE, byte_string |-> FALSE,
     tag |-> FALSE, skip_key |-> FALSE, err |-> NoError]

\* self.buf.write_all(bytes) on a Vec<u8>: never fails
write_all(s, bytes) == [s EXCEPT !.buf = @ \o bytes]

\* return Err(CborError::Encode(WriteError::InvalidMapKey { got }))
InvalidMapKey(s, ty) == [s EXCEPT !.err = [kind |-> "InvalidMapKey", got |-> ty]]

\* a mutated write_num: the one-byte form is chosen with `n < u8::MAX`
write_num_off_by_one(s, major, n) ==
    LET m == Shl8(major, 5) IN
    IF LePat(n, Pat(23)) THEN write_all(s, <<BitOr(m, Low(n, 1)[1])>>)
    ELSE IF LePat(n, Pat(254)) THEN write_all(s, <<BitOr(m, 24)>> \o Low(n, 1))
    ELSE IF LePat(n, U16_MAX) THEN write_all(s, <<BitOr(m, 25)>> \o Low(n, 2))
    ELSE IF LePat(n, U32_MAX) THEN write_all(s, <<BitOr(m, 26)>> \o Low(n, 4))
    ELSE write_all(s, <<BitOr(m, 27)>> \o Low(n, 8))

write_num(s, major, n) ==
    LET m == Shl8(major, 5) IN
    IF LePat(n, Pat(23)) THEN write_all(s, <<BitOr(m, Low(n, 1)[1])>>)
    ELSE IF LePat(n, U8_MAX) THEN write_all(s, <<BitOr(m, 24)>> \o Low(n, 1))
    ELSE IF LePat(n, U16_MAX) THEN write_all(s, <<BitOr(m, 25)>> \o Low(n, 2))
    ELSE IF LePat(n, U32_MAX) THEN write_all(s, <<BitOr(m, 26)>> \o Low(n, 4))
    ELSE write_all(s, <<BitOr(m, 27)>> \o Low(n, 8))

write_uint(s, n) == write_num(s, 0, n)

\* write_int without its sign test (a variant of the code, used to show that the
\* round trip of signed values depends on it)
write_int_unsigned(s, n) == write_uint(s, n)

write_int(s, n) ==
    IF ~IsNeg(n) THEN write_uint(s, n)
    ELSE write_num(s, 1, MinusOneMinus(n))

(***************************************************************************)
(* Values handed to the Serializer.  A value is a record whose field k     *)
(* names its Rust shape; its Serialize implementation (serde's, or the     *)
(* derived one) decides which visit_* method it calls:                     *)
(*   u8..u64, usize, i8..i64, isize (b: the 64-bit pattern), f32, f64      *)
(*   (bits), bool (bv), unit, str (s: the UTF-8 bytes), none, some (v),    *)
(*   seq and tuple (items), map (pairs of key and value),                  *)
(*   struct (name, fields: pairs of field name and value),                 *)
(*   tuple_struct (name, items), unit_variant (variant),                   *)
(*   tuple_variant (variant, items), struct_variant (variant, fields).     *)
(***************************************************************************)
Str(s) == [k |-> "str", s |-> s]

RECURSIVE serialize(_, _)
RECURSIVE SeqVisitor_drain(_, _, _)
RECURSIVE MapVisitor_drain(_, _, _)

Failed(s) == s.err.kind # "none"

visit_unit(s) ==
    IF s.emitting_key THEN InvalidMapKey(s, "Null")
    ELSE write_all(s, <<BitOr(Shl8(7, 5), 22)>>)

visit_usize(s, v) ==
    IF s.emitting_key THEN InvalidMapKey(s, "UInt")
    ELSE write_uint(s, v)

visit_u64(s, v) ==
    IF s.emitting_key THEN InvalidMapKey(s, "UInt64")
    ELSE IF s.tag THEN write_num(s, 6, v)
    ELSE write_uint(s, v)

visit_u32(s, v) ==
    IF s.emitting_key THEN InvalidMapKey(s, "UInt32")
    ELSE write_uint(s, v)

visit_u16(s, v) ==
    IF s.emitting_key THEN InvalidMapKey(s, "UInt16")
    ELSE write_uint(s, v)

visit_u8(s, v) ==
    IF s.emitting_key THEN InvalidMapKey(s, "UInt8")
    ELSE IF s.byte_string THEN write_all(s, Low(v, 1))
    ELSE write_uint(s, v)

visit_isize(s, v) ==
    IF s.emitting_key THEN InvalidMapKey(s, "Int")
    ELSE write_int(s, v)

visit_i64(s, v) ==
    IF s.emitting_key THEN InvalidMapKey(s, "Int64")
    ELSE write_int(s, v)

visit_i32(s, v) ==
    IF s.emitting_key THEN InvalidMapKey(s, "Int32")
    ELSE write_int(s, v)

visit_i16(s, v) ==
    IF s.emitting_key THEN InvalidMapKey(s, "Int16")
    ELSE write_int(s, v)

visit_i8(s, v) ==
    IF s.emitting_key THEN InvalidMapKey(s, "Int8")
    ELSE write_int(s, v)

\* bits: the eight bytes BigEndian::write_f64 emits
visit_f64(s, bits) ==
    IF s.emitting_key THEN InvalidMapKey(s, "Float64")
    ELSE write_all(s, <<BitOr(Shl8(7, 5), 27)>> \o bits)

\* bits: the four bytes BigEndian::write_f32 emits
visit_f32(s, bits) ==
    IF s.emitting_key THEN InvalidMapKey(s, "Float32")
    ELSE write_all(s, <<BitOr(Shl8(7, 5), 26)>> \o bits)

visit_bool(s, v) ==
    IF s.emitting_key THEN InvalidMapKey(s, "Bool")
    ELSE write_all(s, <<BitOr(Shl8(7, 5), IF v THEN 21 ELSE 20)>>)

\* v: the UTF-8 bytes of the &str
visit_str(s, v) == write_all(write_num(s, 3, Pat(Len(v))), v)

visit_none(s) ==
    IF s.emitting_key THEN InvalidMapKey(s, "None")
    ELSE visit_unit(s)

visit_some(s, value) ==
    IF s.emitting_key THEN InvalidMapKey(s, "None")
    ELSE serialize(s, value)

visit_unit_variant(s, variant) == visit_str(s, variant)

visit_seq_elt(s, value) ==
    IF s.emitting_key THEN InvalidMapKey(s, "None")
    ELSE serialize(s, value)

visit_map_elt(s, key, value) ==
    IF s.emitting_key THEN InvalidMapKey(s, "None")
    ELSE
        LET s1 == IF ~s.tag /\ ~s.skip_key
                  THEN LET k1 == serialize([s EXCEPT !.emitting_key = TRUE], key)
                       IN  IF Failed(k1) THEN k1
                           ELSE [k1 EXCEPT !.emitting_key = FALSE]
                  ELSE s
        IN  IF Failed(s1) THEN s1
            ELSE IF s1.emitting_key THEN InvalidMapKey(s1, "None")
            ELSE serialize(s1, value)

\* while let Some(()) = try!(visitor.visit(self)) { } over a sequence's items
\* (serde's SeqIteratorVisitor and tuple visitors call visit_seq_elt per item)
SeqVisitor_drain(s, items, i) ==
    IF i > Len(items) THEN s
    ELSE LET s1 == visit_seq_elt(s, items[i])
         IN  IF Failed(s1) THEN s1 ELSE SeqVisitor_drain(s1, items, i + 1)

\* while let Some(()) = try!(visitor.visit(self)) { } over a map's pairs or a
\* struct's fields (serde's MapIteratorVisitor calls visit_map_elt per pair; a
\* derived struct visitor calls visit_struct_elt, whose default is visit_map_elt)
MapVisitor_drain(s, pairs, i) ==
    IF i > Len(pairs) THEN s
    ELSE LET s1 == visit_map_elt(s, pairs[i][1], pairs[i][2])
         IN  IF Failed(s1) THEN s1 ELSE MapVisitor_drain(s1, pairs, i + 1)

\* a mutated visit_seq: the byte_string flag is not cleared
visit_seq_sticky(s, items) ==
    IF s.emitting_key THEN InvalidMapKey(s, "Array")
    ELSE
        LET s1 == IF s.byte_string THEN write_num(s, 2, Pat(Len(items)))
                  ELSE write_num(s, 4, Pat(Len(items)))
        IN  SeqVisitor_drain(s1, items, 1)

visit_seq(s, items) ==
    IF s.emitting_key THEN InvalidMapKey(s, "Array")
    ELSE
        LET s1 == IF s.byte_string THEN write_num(s, 2, Pat(Len(items)))
                  ELSE write_num(s, 4, Pat(Len(items)))
            s2 == SeqVisitor_drain(s1, items, 1)
        IN  IF Failed(s2) THEN s2 ELSE [s2 EXCEPT !.byte_string = FALSE]

visit_tuple_struct(s, name, items) ==
    IF s.emitting_key THEN InvalidMapKey(s, "Map")
    ELSE
        LET s1 == IF name = "CborBytes" THEN [s EXCEPT !.byte_string = TRUE]
                  ELSE write_num(s, 4, Pat(Len(items)))
        IN  SeqVisitor_drain(s1, items, 1)

visit_tuple_variant(s, variant, items) ==
    IF s.emitting_key THEN InvalidMapKey(s, "None")
    ELSE
        LET s1 == write_num(s, 5, Pat(1))
            s2 == visit_str(s1, variant)
            s3 == write_num(s2, 4, Pat(Len(items)))
        IN  SeqVisitor_drain(s3, items, 1)

visit_map(s, pairs) ==
    IF s.emitting_key THEN InvalidMapKey(s, "Map")
    ELSE MapVisitor_drain(write_num(s, 5, Pat(Len(pairs))), pairs, 1)

visit_struct(s, name, fields) ==
    IF s.emitting_key THEN InvalidMapKey(s, "Map")
    ELSE
        LET s1 == IF name \in {"CborTag", "CborTagEncode"}
                  THEN [s EXCEPT !.tag = TRUE]
                  ELSE write_num(s, 5, Pat(Len(fields)))
        IN  MapVisitor_drain(s1, fields, 1)

visit_struct_variant(s, variant, fields) ==
    IF s.emitting_key THEN InvalidMapKey(s, "None")
    ELSE
        LET s1 == write_num(s, 5, Pat(1))
            s2 == visit_str(s1, variant)
            s3 == write_num(s2, 4, Pat(Len(fields)))
            s4 == MapVisitor_drain([s3 EXCEPT !.skip_key = TRUE], fields, 1)
        IN  IF Failed(s4) THEN s4 ELSE [s4 EXCEPT !.skip_key = FALSE]

\* v.serialize(self): the visit_* method each shape's Serialize implementation
\* calls (visit_tuple defaults to visit_seq)
serialize(s, v) ==
    CASE v.k = "u8" -> visit_u8(s, v.b)
      [] v.k = "u16" -> visit_u16(s, v.b)
      [] v.k = "u32" -> visit_u32(s, v.b)
      [] v.k = "u64" -> visit_u64(s, v.b)
      [] v.k = "usize" -> visit_usize(s, v.b)
      [] v.k = "i8" -> visit_i8(s, v.b)
      [] v.k = "i16" -> visit_i16(s, v.b)
      [] v.k = "i32" -> visit_i32(s, v.b)
      [] v.k = "i64" -> visit_i64(s, v.b)
      [] v.k = "isize" -> visit_isize(s, v.b)
      [] v.k = "f32" -> visit_f32(s, v.bits)
      [] v.k = "f64" -> visit_f64(s, v.bits)
      [] v.k = "bool" -> visit_bool(s, v.bv)
      [] v.k = "unit" -> visit_unit(s)
      [] v.k = "str" -> visit_str(s, v.s)
      [] v.k = "none" -> visit_none(s)
      [] v.k = "some" -> visit_some(s, v.v)
      [] v.k = "seq" -> visit_seq(s, v.items)
      [] v.k = "tuple" -> visit_seq(s, v.items)
      [] v.k = "map" -> visit_map(s, v.pairs)
      [] v.k = "struct" -> visit_struct(s, v.name, v.fields)
      [] v.k = "tuple_struct" -> visit_tuple_struct(s, v.name, v.items)
      [] v.k = "unit_variant" -> visit_unit_variant(s, v.variant)
      [] v.k = "tuple_variant" -> visit_tuple_variant(s, v.variant, v.items)
      [] v.k = "struct_variant" -> visit_struct_variant(s, v.variant, v.fields)

(***************************************************************************)
(* CborReader over io::Cursor<Vec<u8>> (Deserializer::from_bytes)          *)
(*                                                                         *)
(* A Deserializer is the record                                            *)
(*   input, pos      the Cursor: its bytes and its position                *)
(*   buf             CborReader.buf, read before going back to the Cursor  *)
(*   last_offset, bytes_read                                               *)
(*   first           Deserializer.first: <<>> is None, <<b>> is Some(b)    *)
(* and four observations of the run, which no operation reads:             *)
(*   alloc, avail    the length handed to the last vec_from_elem, as a     *)
(*                   64-bit pattern, and the input bytes left at that time *)
(*   pulled          elements handed out by SeqVisitor::visit so far       *)
(*   visited         the visitor method read_isize called last: "visit_i8", *)
(*                   "visit_i16", "visit_i32", "visit_i64", or "" for none *)
(* and one fact of the environment:                                        *)
(*   oom             whether the allocator refuses a request larger than   *)
(*                   the whole input                                       *)
(***************************************************************************)
NoAlloc == <<>>

from_bytes(bytes, oom) ==
    [input |-> bytes, pos |-> 0, buf |-> <<>>, last_offset |-> 0,
     bytes_read |-> 0, first |-> <<>>, alloc |-> NoAlloc, avail |-> 0,
     pulled |-> 0, visited |-> "", oom |-> oom]

Remaining(d) == Len(d.input) - d.pos

Min(a, b) == IF a <= b THEN a ELSE b

\* let r = e; ...: e is computed once and the rest of the body, F, uses it
Bind(e, F(_)) == F(e)

\* io::Cursor::read into a buffer of k bytes
Cursor_read(d, k) ==
    LET n == Min(k, Remaining(d))
    IN  [d |-> [d EXCEPT !.pos = @ + n], n |-> n,
         bytes |-> SubSeq(d.input, d.pos + 1, d.pos + n)]

\* <CborReader as io::Read>::read into a buffer of k bytes
CborReader_read(d, k) ==
    IF d.buf # <<>> THEN
        IF Len(d.buf) <= k
        THEN [d |-> [d EXCEPT !.buf = <<>>], n |-> Len(d.buf), bytes |-> d.buf]
        ELSE [d |-> [d EXCEPT !.buf = SubSeq(d.buf, k + 1, Len(d.buf))],
              n |-> k, bytes |-> SubSeq(d.buf, 1, k)]
    ELSE
        Bind(Cursor_read(d, k), LAMBDA r :
            [d |-> [r.d EXCEPT !.last_offset = d.bytes_read,
                               !.bytes_read = d.bytes_read + r.n],
             n |-> r.n, bytes |-> r.bytes])

\* byteorder's read_u8 / read_u16 / read_u32 / read_u64 / read_f32 / read_f64 on the
\* CborReader: read k bytes, Error::UnexpectedEOF when read returns 0 first
RECURSIVE ReadBytesExt_read(_, _, _)
ReadBytesExt_read(d, k, acc) ==
    IF Len(acc) >= k THEN [d |-> d, ok |-> TRUE, bytes |-> acc]
    ELSE Bind(CborReader_read(d, k - Len(acc)), LAMBDA r :
            IF r.n = 0 THEN [d |-> r.d, ok |-> FALSE, bytes |-> acc]
            ELSE ReadBytesExt_read(r.d, k, acc \o r.bytes))

\* the length of the slice buf[n..] of a buffer of len bytes (len a 64-bit
\* pattern), as far as a read can use it: a read never returns more than the
\* bytes that are left
SliceLen(d, n, len) ==
    LET left == Len(d.buf) + Remaining(d)
    IN  IF LeNat(len, n + left) THEN ToNat(len) - n ELSE left + 1

\* n < buf.len(), n a natural and buf.len() a 64-bit pattern
LtLen(n, len) == ~LeNat(len, n)

\* one iteration of the loop of CborReader::read_full:
\*     n += try!(self.read(&mut buf[n..]));
read_full_step(d, n, len) ==
    Bind(CborReader_read(d, SliceLen(d, n, len)), LAMBDA r :
        [d |-> r.d, n |-> n + r.n, bytes |-> r.bytes])

\* CborReader::read_full(buf), buf of len bytes: the loop, run to its end.  The
\* loop has no exit but n >= buf.len(); an iteration that changes neither n nor
\* the reader is followed by the same iteration for ever, and the call does not
\* return (outcome "hang").
RECURSIVE read_full(_, _, _, _)
read_full(d, n, len, acc) ==
    IF ~LtLen(n, len) THEN [d |-> d, outcome |-> "ok", bytes |-> acc]
    ELSE Bind(read_full_step(d, n, len), LAMBDA r :
            IF r.n = n /\ r.d = d
            THEN [d |-> d, outcome |-> "hang", bytes |-> acc]
            ELSE read_full(r.d, r.n, len, acc \o r.bytes))

\* vec_from_elem(len, 0): Vec::with_capacity(len), set_len, fill.  The call is
\* recorded in alloc and avail.  A request within the input's size is granted;
\* one above isize::MAX never is; one in between is granted or refused by the
\* allocator (d.oom), and a refused request ends the process.
vec_from_elem(d, len) ==
    LET left == Len(d.buf) + Remaining(d)
    IN  [d |-> [d EXCEPT !.alloc = len, !.avail = left],
         granted |-> LeNat(len, left) \/ (len[1] < 128 /\ ~d.oom)]

(***************************************************************************)
(* Deserializer.  An operation returns the record                          *)
(*   d     the Deserializer afterwards                                     *)
(*   kind  "ok" (val is the result), "err" (err is the CborError),         *)
(*         "panic" (panic!, unreachable!), "abort" (allocation refused),   *)
(*         "hang" (the call does not return)                               *)
(* The `visitor` argument of the Rust methods is the target type ty, a     *)
(* record whose field t names the type whose serde Visitor is meant.       *)
(***************************************************************************)
NoVal == [k |-> "nothing"]

NoErr == [e |-> "none", ty |-> "", val |-> 0, at |-> -1]

Ok(d, v) == [d |-> d, kind |-> "ok", val |-> v, err |-> NoErr]

Err(d, e) == [d |-> d, kind |-> "err", val |-> NoVal, err |-> e]

Stop(d, kind) == [d |-> d, kind |-> kind, val |-> NoVal, err |-> NoErr]

\* self.errat(err): CborError::AtOffset { kind, offset: self.rdr.last_offset }
errat(d, e, ty, val) == Err(d, [e |-> e, ty |-> ty, val |-> val, at |-> d.last_offset])

\* self.errstr(s): self.errat(ReadError::Other(s))
errstr(d, msg) == errat(d, "Other", msg, 0)

\* self.miss(expected, got): CborError::Decode(ReadError::miss(expected, got))
miss(d, expected, got) == Err(d, [e |-> "Mismatch", ty |-> expected, val |-> got, at |-> -1])

\* try!(self.rdr.read_u8()) and the like failing: the I/O error, as a CborError
IoError(d) == Err(d, [e |-> "Io", ty |-> "UnexpectedEOF", val |-> 0, at |-> -1])

\* an error returned by a serde Visitor (type mismatch, end of stream, unknown or
\* missing field), as a CborError
VisitorError(d, what) == Err(d, [e |-> "Visitor", ty |-> what, val |-> 0, at |-> -1])

\* try!(r): an Err, and a call that does not return, end the method with it; an
\* Ok is handed to the rest of the body, K
Try(r, K(_)) == IF r.kind # "ok" THEN r ELSE K(r)

\* try!(self.rdr.read_u8()) and the like: the I/O error ends the method, the
\* bytes read are handed to the rest of the body, K
TryRead(r, K(_)) == IF ~r.ok THEN IoError(r.d) ELSE K(r)

peek_marker(d) ==
    IF d.first # <<>> THEN [d |-> d, ok |-> TRUE, bytes |-> d.first]
    ELSE Bind(ReadBytesExt_read(d, 1, <<>>), LAMBDA r :
            IF ~r.ok THEN r
            ELSE [d |-> [r.d EXCEPT !.first = r.bytes], ok |-> TRUE, bytes |-> r.bytes])

\* read_marker with self.first read but not taken (a variant of the code, used
\* to show that the emptied lookahead slot depends on take())
read_marker_keep(d) ==
    IF d.first # <<>>
    THEN [d |-> d, ok |-> TRUE, bytes |-> d.first]
    ELSE ReadBytesExt_read(d, 1, <<>>)

read_marker(d) ==
    IF d.first # <<>>
    THEN [d |-> [d EXCEPT !.first = <<>>], ok |-> TRUE, bytes |-> d.first]
    ELSE ReadBytesExt_read(d, 1, <<>>)

(***************************************************************************)
(* serde's visitors, by target type                                        *)
(***************************************************************************)
UnsignedTypes == {"u8", "u16", "u32", "u64", "usize"}

SignedTypes == {"i8", "i16", "i32", "i64", "isize"}

\* the bytes of a primitive integer type (usize and isize are 64 bit)
SizeOf(t) ==
    CASE t \in {"u8", "i8"} -> 1
      [] t \in {"u16", "i16"} -> 2
      [] t \in {"u32", "i32"} -> 4
      [] OTHER -> 8

\* n as iW for the W-bit unsigned reading n (b its zero-extended pattern): the low
\* W bits, sign-extended
AsSigned(b, bytes) ==
    LET low == Low(b, bytes)
    IN  [i \in 1..(8 - bytes) |-> IF low[1] >= 128 THEN 255 ELSE 0] \o low

\* FromPrimitive::from_u8/16/32/64 into the primitive type t
FromUnsigned(t, b) ==
    IF t \in UnsignedTypes THEN LeadingZeros(b) >= 8 - SizeOf(t)
    ELSE LeadingZeros(b) >= 8 - SizeOf(t) /\ b[9 - SizeOf(t)] < 128

\* FromPrimitive::from_i8/16/32/64 into the primitive type t
FromSigned(t, b) ==
    IF ~IsNeg(b) THEN FromUnsigned(t, b)
    ELSE t \in SignedTypes
         /\ \A i \in 1..(8 - SizeOf(t)) : b[i] = 255
         /\ b[9 - SizeOf(t)] >= 128

\* visitor.visit_u8 / visit_u16 / visit_u32 / visit_u64: PrimitiveVisitor converts
\* with FromPrimitive, every other visitor refuses
Visitor_visit_unsigned(d, ty, b) ==
    IF ty.t \in UnsignedTypes \cup SignedTypes /\ FromUnsigned(ty.t, b)
    THEN Ok(d, [k |-> ty.t, b |-> b])
    ELSE VisitorError(d, "type_mismatch")

\* visitor.visit_i8 / visit_i16 / visit_i32 / visit_i64
Visitor_visit_signed(d, ty, b) ==
    IF ty.t \in UnsignedTypes \cup SignedTypes /\ FromSigned(ty.t, b)
    THEN Ok(d, [k |-> ty.t, b |-> b])
    ELSE VisitorError(d, "type_mismatch")

\* visitor.visit_bool
Visitor_visit_bool(d, ty, v) ==
    IF ty.t = "bool" THEN Ok(d, [k |-> "bool", bv |-> v])
    ELSE VisitorError(d, "type_mismatch")

\* visitor.visit_unit: (), the empty Vec and HashMap, and None
Visitor_visit_unit(d, ty) ==
    CASE ty.t = "unit" -> Ok(d, [k |-> "unit"])
      [] ty.t = "vec" -> Ok(d, [k |-> "seq", items |-> <<>>])
      [] ty.t = "map" -> Ok(d, [k |-> "map", pairs |-> <<>>])
      [] ty.t = "option" -> Ok(d, [k |-> "none"])
      [] OTHER -> VisitorError(d, "type_mismatch")

\* visitor.visit_f32 / visit_f64 (bits: the bytes read).  The float types keep
\* the bits; what FromPrimitive makes of a float for an integer type is not
\* modelled, the integer visitors are taken to refuse it.
Visitor_visit_float(d, ty, k, bits) ==
    IF ty.t = k THEN Ok(d, [k |-> k, bits |-> bits])
    ELSE VisitorError(d, "type_mismatch")

\* visitor.visit_string: String, and a derived field or variant identifier,
\* which knows its names (ty.names)
Visitor_visit_string(d, ty, str) ==
    CASE ty.t = "string" -> Ok(d, Str(str))
      [] ty.t = "field" ->
            IF \E i \in 1..Len(ty.names) : ty.names[i] = str THEN Ok(d, Str(str))
            ELSE VisitorError(d, "unknown_field")
      [] OTHER -> VisitorError(d, "type_mismatch")

\* String::from_utf8(buf).is_ok()
RECURSIVE from_utf8(_, _)
from_utf8(buf, i) ==
    LET cont(j) == j <= Len(buf) /\ buf[j] \in 128..191 IN
    IF i > Len(buf) THEN TRUE
    ELSE IF buf[i] < 128 THEN from_utf8(buf, i + 1)
    ELSE IF buf[i] \in 194..223 THEN cont(i + 1) /\ from_utf8(buf, i + 2)
    ELSE IF buf[i] \in 224..239 THEN
        /\ cont(i + 1) /\ cont(i + 2)
        /\ (buf[i] = 224 => buf[i + 1] >= 160)
        /\ (buf[i] = 237 => buf[i + 1] <= 159)
        /\ from_utf8(buf, i + 3)
    ELSE IF buf[i] \in 240..244 THEN
        /\ cont(i + 1) /\ cont(i + 2) /\ cont(i + 3)
        /\ (buf[i] = 240 => buf[i + 1] >= 144)
        /\ (buf[i] = 244 => buf[i + 1] <= 143)
        /\ from_utf8(buf, i + 4)
    ELSE FALSE

(***************************************************************************)
(* Deserializer: the read_* methods                                        *)
(***************************************************************************)
RECURSIVE deserialize(_, _)

UsizeT == [t |-> "usize"]

StringT == [t |-> "string"]

UnitT == [t |-> "unit"]

\* the u8 items of a Vec<u8>
ByteItems(buf) == [i \in 1..Len(buf) |-> [k |-> "u8", b |-> Pat(buf[i])]]

\* visitor.visit_byte_buf: CborBytes takes the buffer, String and an identifier
\* take it when it is UTF-8
Visitor_visit_byte_buf(d, ty, buf) ==
    CASE ty.t = "bytes" ->
            Ok(d, [k |-> "tuple_struct", name |-> "CborBytes",
                   items |-> <<[k |-> "seq", items |-> ByteItems(buf)]>>])
      [] ty.t \in {"string", "field"} ->
            IF from_utf8(buf, 1) THEN Visitor_visit_string(d, ty, buf)
            ELSE VisitorError(d, "type_mismatch")
      [] OTHER -> VisitorError(d, "type_mismatch")

read_usize(d, first, ty) ==
    LET add == BitAnd(first, 31) IN
    IF add \in 0..23 THEN Visitor_visit_unsigned(d, ty, Pat(add))
    ELSE IF add = 24 THEN
        TryRead(ReadBytesExt_read(d, 1, <<>>), LAMBDA r :
            Visitor_visit_unsigned(r.d, ty, ZeroExt(r.bytes)))
    ELSE IF add = 25 THEN
        TryRead(ReadBytesExt_read(d, 2, <<>>), LAMBDA r :
            Visitor_visit_unsigned(r.d, ty, ZeroExt(r.bytes)))
    ELSE IF add = 26 THEN
        TryRead(ReadBytesExt_read(d, 4, <<>>), LAMBDA r :
            Visitor_visit_unsigned(r.d, ty, ZeroExt(r.bytes)))
    ELSE IF add = 27 THEN
        TryRead(ReadBytesExt_read(d, 8, <<>>), LAMBDA r :
            Visitor_visit_unsigned(r.d, ty, ZeroExt(r.bytes)))
    ELSE errat(d, "InvalidAddValue", "UInt", add)

\* visitor.visit_i8 / visit_i16 / visit_i32 / visit_i64 as read_isize calls them:
\* the method is recorded in visited
Visitor_visit_i(d, ty, method, b) ==
    Visitor_visit_signed([d EXCEPT !.visited = method], ty, b)

\* read_isize with the one-byte magnitude always cast to i8 (a variant of the
\* code, used to show that the value delivered depends on the promotion)
read_isize_wrapping(d, first, ty) ==
    LET add == BitAnd(first, 31) IN
    IF add \in 0..23
    THEN Visitor_visit_i(d, ty, "visit_i8", MinusOneMinus(AsSigned(Pat(add), 1)))
    ELSE IF add = 24 THEN
        TryRead(ReadBytesExt_read(d, 1, <<>>), LAMBDA r :
        Bind(ZeroExt(r.bytes), LAMBDA n :
            Visitor_visit_i(r.d, ty, "visit_i8", MinusOneMinus(AsSigned(n, 1)))))
    ELSE IF add = 25 THEN
        TryRead(ReadBytesExt_read(d, 2, <<>>), LAMBDA r :
        Bind(ZeroExt(r.bytes), LAMBDA n :
            IF ~LePat(n, I16_MAX)
            THEN Visitor_visit_i(r.d, ty, "visit_i32", MinusOneMinus(AsSigned(n, 4)))
            ELSE Visitor_visit_i(r.d, ty, "visit_i16", MinusOneMinus(AsSigned(n, 2)))))
    ELSE IF add = 26 THEN
        TryRead(ReadBytesExt_read(d, 4, <<>>), LAMBDA r :
        Bind(ZeroExt(r.bytes), LAMBDA n :
            IF ~LePat(n, I32_MAX)
            THEN Visitor_visit_i(r.d, ty, "visit_i64", MinusOneMinus(AsSigned(n, 8)))
            ELSE Visitor_visit_i(r.d, ty, "visit_i32", MinusOneMinus(AsSigned(n, 4)))))
    ELSE IF add = 27 THEN
        TryRead(ReadBytesExt_read(d, 8, <<>>), LAMBDA r :
        Bind(ZeroExt(r.bytes), LAMBDA n :
            IF ~LePat(n, I64_MAX) THEN errstr(r.d, "Negative integer out of range")
            ELSE Visitor_visit_i(r.d, ty, "visit_i64", MinusOneMinus(AsSigned(n, 8)))))
    ELSE errat(d, "InvalidAddValue", "Int", add)

read_isize(d, first, ty) ==
    LET add == BitAnd(first, 31) IN
    IF add \in 0..23
    THEN Visitor_visit_i(d, ty, "visit_i8", MinusOneMinus(AsSigned(Pat(add), 1)))
    ELSE IF add = 24 THEN
        TryRead(ReadBytesExt_read(d, 1, <<>>), LAMBDA r :
        Bind(ZeroExt(r.bytes), LAMBDA n :
            IF ~LePat(n, I8_MAX)
            THEN Visitor_visit_i(r.d, ty, "visit_i16", MinusOneMinus(AsSigned(n, 2)))
            ELSE Visitor_visit_i(r.d, ty, "visit_i8", MinusOneMinus(AsSigned(n, 1)))))
    ELSE IF add = 25 THEN
        TryRead(ReadBytesExt_read(d, 2, <<>>), LAMBDA r :
        Bind(ZeroExt(r.bytes), LAMBDA n :
            IF ~LePat(n, I16_MAX)
            THEN Visitor_visit_i(r.d, ty, "visit_i32", MinusOneMinus(AsSigned(n, 4)))
            ELSE Visitor_visit_i(r.d, ty, "visit_i16", MinusOneMinus(AsSigned(n, 2)))))
    ELSE IF add = 26 THEN
        TryRead(ReadBytesExt_read(d, 4, <<>>), LAMBDA r :
        Bind(ZeroExt(r.bytes), LAMBDA n :
            IF ~LePat(n, I32_MAX)
            THEN Visitor_visit_i(r.d, ty, "visit_i64", MinusOneMinus(AsSigned(n, 8)))
            ELSE Visitor_visit_i(r.d, ty, "visit_i32", MinusOneMinus(AsSigned(n, 4)))))
    ELSE IF add = 27 THEN
        TryRead(ReadBytesExt_read(d, 8, <<>>), LAMBDA r :
        Bind(ZeroExt(r.bytes), LAMBDA n :
            IF ~LePat(n, I64_MAX) THEN errstr(r.d, "Negative integer out of range")
            ELSE Visitor_visit_i(r.d, ty, "visit_i64", MinusOneMinus(AsSigned(n, 8)))))
    ELSE errat(d, "InvalidAddValue", "Int", add)

read_len(d, first) == read_usize(d, first, UsizeT)

read_tag(d, first, ty) == read_usize(d, first, ty)

\* read_simple_value without the arm 24...31 (a variant of the code, used to
\* show that the Reserved error depends on it)
read_simple_value_no_reserved(d, val, ty) ==
    IF val \in 0..19 THEN errat(d, "Unassigned", "7", val)
    ELSE IF val = 20 THEN Visitor_visit_bool(d, ty, FALSE)
    ELSE IF val = 21 THEN Visitor_visit_bool(d, ty, TRUE)
    ELSE IF val = 22 THEN Visitor_visit_unit(d, ty)
    ELSE IF val = 23 THEN Stop(d, "panic")
    ELSE errat(d, "Unassigned", "7", val)

read_simple_value(d, val, ty) ==
    IF val \in 0..19 THEN errat(d, "Unassigned", "7", val)
    ELSE IF val = 20 THEN Visitor_visit_bool(d, ty, FALSE)
    ELSE IF val = 21 THEN Visitor_visit_bool(d, ty, TRUE)
    ELSE IF val = 22 THEN Visitor_visit_unit(d, ty)
    ELSE IF val = 23 THEN Stop(d, "panic")
    ELSE IF val \in 24..31 THEN errat(d, "Reserved", "7", val)
    ELSE errat(d, "Unassigned", "7", val)

read_float(d, first, ty) ==
    LET major == Shr(BitAnd(first, 224), 5)
        add == BitAnd(first, 31)
    IN  IF major = 0 THEN read_usize(d, add, ty)
        ELSE IF major = 1 THEN read_isize(d, add, ty)
        ELSE IF major = 7 /\ add = 25 THEN
            TryRead(ReadBytesExt_read(d, 2, <<>>), LAMBDA r :
                Visitor_visit_float(r.d, ty, "f64", r.bytes))
        ELSE IF major = 7 /\ add = 26 THEN
            TryRead(ReadBytesExt_read(d, 4, <<>>), LAMBDA r :
                Visitor_visit_float(r.d, ty, "f32", r.bytes))
        ELSE IF major = 7 /\ add = 27 THEN
            TryRead(ReadBytesExt_read(d, 8, <<>>), LAMBDA r :
                Visitor_visit_float(r.d, ty, "f64", r.bytes))
        ELSE miss(d, "Float", first)

\* let mut buf = vec_from_elem(len, 0); try!(self.rdr.read_full(&mut buf));
\* the common part of read_string and read_bytes: kind "ok" carries the bytes in ty
FillBuffer(d, len) ==
    Bind(vec_from_elem(d, len), LAMBDA a :
        IF ~a.granted THEN [d |-> a.d, kind |-> "abort", bytes |-> <<>>]
        ELSE Bind(read_full(a.d, 0, len, <<>>), LAMBDA r :
                [d |-> r.d, kind |-> r.outcome, bytes |-> r.bytes]))

read_type(d, first, expected, major) ==
    IF Shr(BitAnd(first, 224), 5) = major THEN Ok(d, NoVal)
    ELSE miss(d, expected, first)

read_string(d, first, ty) ==
    Try(read_type(d, first, "Unicode", 3), LAMBDA t :
    Try(read_len(d, first), LAMBDA len :
    Bind(FillBuffer(len.d, len.val.b), LAMBDA f :
        IF f.kind # "ok" THEN Stop(f.d, f.kind)
        ELSE IF ~from_utf8(f.bytes, 1) THEN errstr(f.d, "invalid utf-8")
        ELSE Visitor_visit_string(f.d, ty, f.bytes))))

read_bytes(d, first, ty) ==
    Try(read_len(d, first), LAMBDA len :
    Bind(FillBuffer(len.d, len.val.b), LAMBDA f :
        IF f.kind # "ok" THEN Stop(f.d, f.kind)
        ELSE Visitor_visit_byte_buf(f.d, ty, f.bytes)))

(***************************************************************************)
(* Pull cursors: SeqVisitor and MapVisitor, and the serde visitors that    *)
(* drain them                                                              *)
(***************************************************************************)
\* SeqVisitor::visit with the end of the input taken for the end of the array (a
\* variant of the code, used to show that the error of a short array depends on it)
SeqVisitor_visit_to_eof(d, len, ety) ==
    IF IsZero(len) \/ (d.first = <<>> /\ d.buf = <<>> /\ Remaining(d) = 0)
    THEN [res |-> Ok(d, NoVal), len |-> Pat(0), some |-> FALSE]
    ELSE Bind(deserialize(d, ety), LAMBDA r :
            [res |-> IF r.kind = "ok" THEN [r EXCEPT !.d.pulled = @ + 1] ELSE r,
             len |-> Dec(len), some |-> TRUE])

\* SeqVisitor::visit::<T>(): res is the call's result, some tells Some from None,
\* len is self.len afterwards
SeqVisitor_visit(d, len, ety) ==
    IF IsZero(len) THEN [res |-> Ok(d, NoVal), len |-> len, some |-> FALSE]
    ELSE Bind(deserialize(d, ety), LAMBDA r :
            [res |-> IF r.kind = "ok" THEN [r EXCEPT !.d.pulled = @ + 1] ELSE r,
             len |-> Dec(len), some |-> TRUE])

SeqVisitor_end(d, len) ==
    IF IsZero(len) THEN Ok(d, NoVal)
    ELSE errstr(d, "Unexpected end of array")

\* MapVisitor::visit_key without `self.len -= 1` (a variant of the code, used to
\* show that the number of keys handed out depends on the count)
MapVisitor_visit_key_uncounted(d, len, kty) ==
    IF IsZero(len) THEN [res |-> Ok(d, NoVal), len |-> len, some |-> FALSE]
    ELSE [res |-> deserialize(d, kty), len |-> len, some |-> TRUE]

\* MapVisitor::visit_key::<T>()
MapVisitor_visit_key(d, len, kty) ==
    IF IsZero(len) THEN [res |-> Ok(d, NoVal), len |-> len, some |-> FALSE]
    ELSE [res |-> deserialize(d, kty), len |-> Dec(len), some |-> TRUE]

\* MapVisitor::visit_value::<T>()
MapVisitor_visit_value(d, vty) == deserialize(d, vty)

MapVisitor_end(d, len) ==
    IF IsZero(len) THEN Ok(d, NoVal)
    ELSE errstr(d, "Unexpected end of array")

\* serde's VecVisitor::visit_seq:
\*     while let Some(value) = try!(visitor.visit()) { values.push(value); }
\*     try!(visitor.end()); Ok(values)
RECURSIVE VecVisitor_visit_seq(_, _, _, _)
VecVisitor_visit_seq(d, len, ety, acc) ==
    Bind(SeqVisitor_visit(d, len, ety), LAMBDA v :
        IF v.res.kind # "ok" THEN v.res
        ELSE IF v.some
        THEN VecVisitor_visit_seq(v.res.d, v.len, ety, Append(acc, v.res.val))
        ELSE Try(SeqVisitor_end(v.res.d, v.len), LAMBDA e : Ok(e.d, acc)))

\* serde's tuple visitors and the derived visit_seq of a struct, a tuple struct
\* or a variant's fields: one visitor.visit() per field, None is an end-of-stream
\* error, then try!(visitor.end())
RECURSIVE TupleVisitor_visit_seq(_, _, _, _, _)
TupleVisitor_visit_seq(d, len, es, i, acc) ==
    IF i > Len(es) THEN
        Try(SeqVisitor_end(d, len), LAMBDA e : Ok(e.d, acc))
    ELSE
        Bind(SeqVisitor_visit(d, len, es[i]), LAMBDA v :
            IF v.res.kind # "ok" THEN v.res
            ELSE IF ~v.some THEN VisitorError(v.res.d, "end_of_stream")
            ELSE TupleVisitor_visit_seq(v.res.d, v.len, es, i + 1,
                                        Append(acc, v.res.val)))

\* serde's MapVisitor for HashMap<String, V>:
\*     while let Some((key, value)) = try!(visitor.visit()) { insert }
\*     try!(visitor.end()); Ok(values)
RECURSIVE HashMapVisitor_visit_map(_, _, _, _)
HashMapVisitor_visit_map(d, len, vty, acc) ==
    Bind(MapVisitor_visit_key(d, len, StringT), LAMBDA key :
        IF key.res.kind # "ok" THEN key.res
        ELSE IF ~key.some THEN
            Try(MapVisitor_end(key.res.d, key.len), LAMBDA e : Ok(e.d, acc))
        ELSE
            Try(MapVisitor_visit_value(key.res.d, vty), LAMBDA val :
                HashMapVisitor_visit_map(val.d, key.len, vty,
                                         Append(acc, <<key.res.val, val.val>>))))

\* the index of a field name
FieldIndex(names, str) == CHOOSE i \in 1..Len(names) : names[i] = str

\* the derived visit_map of a struct:
\*     while let Some(key) = try!(visitor.visit_key()) {
\*         match key { Field::i => { field_i = Some(try!(visitor.visit_value())); } } }
\*     a field still None is visitor.missing_field(name), an error;
\*     try!(visitor.end())
\* got maps each field to <<>> (None) or <<value>> (Some)
RECURSIVE StructVisitor_visit_map(_, _, _, _)
StructVisitor_visit_map(d, len, ty, got) ==
    Bind(MapVisitor_visit_key(d, len, [t |-> "field", names |-> ty.names]), LAMBDA key :
        IF key.res.kind # "ok" THEN key.res
        ELSE IF ~key.some THEN
            IF \E j \in 1..Len(got) : got[j] = <<>>
            THEN VisitorError(key.res.d, "missing_field")
            ELSE Try(MapVisitor_end(key.res.d, key.len), LAMBDA e :
                    Ok(e.d, [j \in 1..Len(got) |-> got[j][1]]))
        ELSE
            Bind(FieldIndex(ty.names, key.res.val.s), LAMBDA i :
            Try(MapVisitor_visit_value(key.res.d, ty.es[i]), LAMBDA val :
                StructVisitor_visit_map(val.d, key.len, ty,
                                        [got EXCEPT ![i] = <<val.val>>]))))

\* the fields of a struct value: pairs of name and value
Fields(names, vals) == [i \in 1..Len(names) |-> <<Str(names[i]), vals[i]>>]

\* the value a visitor builds from its items
Build(ty, items) ==
    CASE ty.t = "vec" -> [k |-> "seq", items |-> items]
      [] ty.t = "tuple" -> [k |-> "tuple", items |-> items]
      [] ty.t = "tuple_struct" -> [k |-> "tuple_struct", name |-> ty.name, items |-> items]
      [] ty.t = "struct" -> [k |-> "struct", name |-> ty.name, fields |-> Fields(ty.names, items)]
      [] ty.t = "tuple_fields" -> [k |-> "tuple_variant", variant |-> ty.name, items |-> items]
      [] ty.t = "struct_fields" ->
            [k |-> "struct_variant", variant |-> ty.name, fields |-> Fields(ty.names, items)]
      [] ty.t = "map" -> [k |-> "map", pairs |-> items]

WithVal(r, v) == IF r.kind = "ok" THEN [r EXCEPT !.val = v] ELSE r

\* visitor.visit_seq(SeqVisitor { deserializer: self, len: len })
Visitor_visit_seq(d, ty, len) ==
    CASE ty.t = "vec" ->
            Bind(VecVisitor_visit_seq(d, len, ty.e, <<>>), LAMBDA r :
                WithVal(r, Build(ty, r.val)))
      [] ty.t \in {"tuple", "tuple_struct", "struct", "tuple_fields", "struct_fields"} ->
            Bind(TupleVisitor_visit_seq(d, len, ty.es, 1, <<>>), LAMBDA r :
                WithVal(r, Build(ty, r.val)))
      [] ty.t = "unit" -> WithVal(SeqVisitor_end(d, len), [k |-> "unit"])
      [] OTHER -> VisitorError(d, "type_mismatch")

\* visitor.visit_map(MapVisitor { deserializer: self, len: len })
Visitor_visit_map(d, ty, len) ==
    CASE ty.t = "map" ->
            Bind(HashMapVisitor_visit_map(d, len, ty.v, <<>>), LAMBDA r :
                WithVal(r, Build(ty, r.val)))
      [] ty.t \in {"struct", "struct_fields"} ->
            Bind(StructVisitor_visit_map(d, len, ty, [j \in 1..Len(ty.es) |-> <<>>]),
                 LAMBDA r : WithVal(r, Build(ty, r.val)))
      [] OTHER -> VisitorError(d, "type_mismatch")

read_map(d, first, ty) ==
    Try(read_len(d, first), LAMBDA len : Visitor_visit_map(len.d, ty, len.val.b))

read_array(d, first, ty) ==
    Try(read_len(d, first), LAMBDA len : Visitor_visit_seq(len.d, ty, len.val.b))

read_value(d, first, ty) ==
    LET major == Shr(BitAnd(first, 224), 5)
        add == BitAnd(first, 31)
    IN  CASE major = 0 -> read_usize(d, first, ty)
          [] major = 1 -> read_isize(d, first, ty)
          [] major = 2 -> read_bytes(d, first, ty)
          [] major = 3 -> read_string(d, first, ty)
          [] major = 4 -> read_array(d, first, ty)
          [] major = 5 -> read_map(d, first, ty)
          [] major = 6 -> read_tag(d, first, ty)
          [] major = 7 ->
                IF add \in 0..23 THEN read_simple_value(d, add, ty)
                ELSE IF add = 24 THEN
                    TryRead(ReadBytesExt_read(d, 1, <<>>), LAMBDA b :
                        read_simple_value(b.d, b.bytes[1], ty))
                ELSE IF add \in 25..27 THEN read_float(d, first, ty)
                ELSE IF add \in 28..30 THEN errat(d, "Unassigned", "7", add)
                ELSE Stop(d, "panic")
          [] OTHER -> Stop(d, "panic")

\* <Deserializer as serde::Deserializer>::visit
Deserializer_visit(d, ty) ==
    TryRead(read_marker(d), LAMBDA first : read_value(first.d, first.bytes[1], ty))

\* <Deserializer as serde::Deserializer>::visit_struct
Deserializer_visit_struct(d, name, ty) ==
    IF name = "CborTag" THEN
        TryRead(read_marker(d), LAMBDA first : Stop(first.d, "panic"))
    ELSE Deserializer_visit(d, ty)

\* the variant of an enum type with the given name
VariantOf(ty, str) ==
    ty.variants[CHOOSE i \in 1..Len(ty.variants) : ty.variants[i].name = str]

VariantNames(ty) == [i \in 1..Len(ty.variants) |-> ty.variants[i].name]

\* the derived EnumVisitor::visit(variant_visitor):
\*     match try!(visitor.visit_variant()) {
\*         unit variant   => { try!(visitor.visit_unit()); Ok(..) }
\*         tuple variant  => visitor.visit_tuple(len, ..)
\*         struct variant => visitor.visit_struct(FIELDS, ..) }
\* via = "string" is StringVariantVisitor (visit_tuple and visit_struct keep
\* serde's default, an error), via = "map" is the Deserializer itself
EnumVisitor_visit(d, ty, via) ==
    Try(deserialize(d, [t |-> "field", names |-> VariantNames(ty)]), LAMBDA name :
    Bind(VariantOf(ty, name.val.s), LAMBDA v :
        IF v.shape = "unit" THEN
            WithVal(IF via = "string" THEN Ok(name.d, NoVal) ELSE deserialize(name.d, UnitT),
                    [k |-> "unit_variant", variant |-> v.name])
        ELSE IF via = "string" THEN VisitorError(name.d, "syntax")
        ELSE Deserializer_visit(name.d,
                [t |-> IF v.shape = "tuple" THEN "tuple_fields" ELSE "struct_fields",
                 name |-> v.name, names |-> v.names, es |-> v.es])))

\* visit_enum without the test `len != 1` (a variant of the code, used to show
\* that the error of a variant map of another count depends on it)
Deserializer_visit_enum_any_count(d, ty) ==
    TryRead(peek_marker(d), LAMBDA first :
    Bind(Shr(BitAnd(first.bytes[1], 224), 5), LAMBDA major :
        IF major = 3 THEN EnumVisitor_visit(first.d, ty, "string")
        ELSE IF major = 5 THEN
            Try(read_len([first.d EXCEPT !.first = <<>>], first.bytes[1]), LAMBDA len :
                EnumVisitor_visit(len.d, ty, "map"))
        ELSE errstr(first.d, "Expected variant map")))

\* <Deserializer as serde::Deserializer>::visit_enum
Deserializer_visit_enum(d, ty) ==
    TryRead(peek_marker(d), LAMBDA first :
    Bind(Shr(BitAnd(first.bytes[1], 224), 5), LAMBDA major :
        IF major = 3 THEN EnumVisitor_visit(first.d, ty, "string")
        ELSE IF major = 5 THEN
            Try(read_len([first.d EXCEPT !.first = <<>>], first.bytes[1]), LAMBDA len :
                IF len.val.b # Pat(1) THEN errstr(len.d, "Too many fields in variant map")
                ELSE EnumVisitor_visit(len.d, ty, "map"))
        ELSE errstr(first.d, "Expected variant map")))

\* Deserialize::deserialize(deserializer) for the target type ty
deserialize(d, ty) ==
    CASE ty.t = "enum" -> Deserializer_visit_enum(d, ty)
      [] ty.t = "struct" -> Deserializer_visit_struct(d, ty.name, ty)
      [] ty.t = "tagged" ->
            Try(deserialize(d, [t |-> "u64"]), LAMBDA tag :
            Bind(deserialize(tag.d, ty.p), LAMBDA data :
                WithVal(data, [k |-> "struct", name |-> "CborTagEncode",
                               fields |-> <<<<Str(<<116, 97, 103>>), tag.val>>,
                                            <<Str(<<100, 97, 116, 97>>), data.val>>>>])))
      [] OTHER -> Deserializer_visit(d, ty)

(***************************************************************************)
(* The values of the runs                                                  *)
(***************************************************************************)
U8(n) == [k |-> "u8", b |-> Pat(n)]

U16(n) == [k |-> "u16", b |-> Pat(n)]

U32(n) == [k |-> "u32", b |-> Pat(n)]

U64(n) == [k |-> "u64", b |-> Pat(n)]

\* a signed value of the shape k: n >= 0 itself, n < 0 as its pattern
I(k, n) == [k |-> k, b |-> IF n >= 0 THEN Pat(n) ELSE NegPat(-1 - n)]

I32(n) == I("i32", n)

Bool(v) == [k |-> "bool", bv |-> v]

Unit == [k |-> "unit"]

Seq_(items) == [k |-> "seq", items |-> items]

Tuple(items) == [k |-> "tuple", items |-> items]

Map(pairs) == [k |-> "map", pairs |-> pairs]

Struct(name, fields) == [k |-> "struct", name |-> name, fields |-> fields]

\* CborBytes(b), the newtype struct over Vec<u8>: its Serialize calls
\* visit_tuple_struct("CborBytes", ..) with the Vec<u8> as the one item
CborBytes(bytes) ==
    [k |-> "tuple_struct", name |-> "CborBytes", items |-> <<Seq_(ByteItems(bytes))>>]

\* CborTagEncode::new(tag, &data), the struct { tag: u64, data }: its Serialize
\* calls visit_struct("CborTagEncode", ..) with the fields tag and data
CborTagEncode(tag, data) ==
    Struct("CborTagEncode",
           <<<<Str(<<116, 97, 103>>), [k |-> "u64", b |-> tag]>>,
             <<Str(<<100, 97, 116, 97>>), data>>>>)

UnitVariant(name) == [k |-> "unit_variant", variant |-> name]

TupleVariant(name, items) == [k |-> "tuple_variant", variant |-> name, items |-> items]

StructVariant(name, fields) == [k |-> "struct_variant", variant |-> name, fields |-> fields]

\* names, as UTF-8
S_a == <<97>>

S_b == <<98>>

S_m == <<109>>

S_n == <<110>>

S_s == <<115>>

S_hi == <<104, 105>>

S_cwm == <<99, 119, 109>>

S_Red == <<82, 101, 100>>

S_Blue == <<66, 108, 117, 101>>

S_Green == <<71, 114, 101, 101, 110>>

\* a text of 24 bytes, the first length that needs a length byte
S_long == [i \in 1..24 |-> 97]

AllOnes == <<255, 255, 255, 255, 255, 255, 255, 255>>

\* integers of every width, with each width's minimum and maximum and the
\* values at which the encoding changes its width
IntValues ==
    {U8(0), U8(23), U8(24), U8(255),
     U16(0), U16(255), U16(256), U16(65535),
     U32(0), U32(65535), U32(65536), [k |-> "u32", b |-> U32_MAX],
     U64(0), [k |-> "u64", b |-> U32_MAX], [k |-> "u64", b |-> <<0, 0, 0, 1, 0, 0, 0, 0>>],
     [k |-> "u64", b |-> I64_MAX], [k |-> "u64", b |-> MinusOneMinus(I64_MAX)],
     [k |-> "u64", b |-> AllOnes],
     [k |-> "usize", b |-> Pat(5)], [k |-> "usize", b |-> AllOnes],
     I("i8", 0), I("i8", 127), I("i8", -1), I("i8", -24), I("i8", -25), I("i8", -128),
     I("i16", 128), I("i16", 32767), I("i16", -129), I("i16", -256), I("i16", -257),
     I("i16", -32768),
     I("i32", 32768), [k |-> "i32", b |-> I32_MAX], I("i32", -32769), I("i32", -65536),
     I("i32", -65537), [k |-> "i32", b |-> MinusOneMinus(I32_MAX)],
     [k |-> "i64", b |-> <<0, 0, 0, 0, 128, 0, 0, 0>>], [k |-> "i64", b |-> I64_MAX],
     [k |-> "i64", b |-> MinusOneMinus(<<0, 0, 0, 0, 128, 0, 0, 0>>)],
     [k |-> "i64", b |-> MinusOneMinus(U32_MAX)],
     [k |-> "i64", b |-> MinusOneMinus(<<0, 0, 0, 1, 0, 0, 0, 0>>)],
     [k |-> "i64", b |-> MinusOneMinus(I64_MAX)],
     [k |-> "isize", b |-> AllOnes], [k |-> "isize", b |-> MinusOneMinus(I64_MAX)]}

Vowels == Struct("Vowels", <<<<Str(S_s), Str(S_cwm)>>, <<Str(S_n), U32(1)>>>>)

\* values built from integers, booleans, unit, text, sequences, tuples,
\* string-keyed maps and plain structs
PlainValues ==
    IntValues \cup
    {Bool(TRUE), Bool(FALSE), Unit, Str(<<>>), Str(S_a), Str(S_hi), Str(S_long),
     Seq_(<<>>), Seq_(<<I32(1), I32(-2), I32(300)>>), Seq_(<<U8(1), U8(2), U8(255)>>),
     Seq_(<<Seq_(<<I32(1)>>), Seq_(<<>>)>>), Seq_(<<Str(S_a), Str(S_hi)>>),
     Seq_(<<Map(<<<<Str(S_a), I32(1)>>>>)>>),
     Tuple(<<I32(-5), U32(7)>>), Tuple(<<I32(1), Tuple(<<U32(2), I32(-3)>>), U32(4)>>),
     Tuple(<<Vowels, Seq_(<<Unit>>)>>),
     Map(<<>>), Map(<<<<Str(S_a), I32(1)>>>>),
     Map(<<<<Str(S_a), I32(1)>>, <<Str(S_b), I32(-2)>>>>),
     Map(<<<<Str(S_a), Seq_(<<I32(1), I32(2)>>)>>>>),
     Map(<<<<Str(S_a), Map(<<<<Str(S_b), I32(1)>>>>)>>>>),
     Vowels,
     Struct("Outer", <<<<Str(S_m), Map(<<<<Str(S_a), I32(1)>>>>)>>, <<Str(S_s), Vowels>>>>),
     Struct("Empty", <<>>)}

\* the byte-string wrapper, and a newtype struct of another name
BytesValues ==
    {CborBytes(<<>>), CborBytes(<<1, 2, 255>>), CborBytes(S_long),
     [k |-> "tuple_struct", name |-> "DataName", items |-> <<Seq_(<<U8(104), U8(105)>>)>>]}

\* keys that are not text
BadKeys ==
    {I32(5), U8(5), Bool(TRUE), Unit, Seq_(<<I32(1)>>), Map(<<>>), [k |-> "none"],
     [k |-> "some", v |-> Str(S_a)]}

BadMaps == {Map(<<<<key, I32(5)>>>>) : key \in BadKeys}

BadMap == Map(<<<<I32(5), I32(5)>>>>)

GoodMap == Map(<<<<Str(S_a), I32(5)>>>>)

\* a map at top level, in a sequence, as a map value, as a struct field, in a
\* tuple variant, as a tag's payload, as a field of a struct variant
Places(m) ==
    {m, Seq_(<<m>>), Map(<<<<Str(S_a), m>>>>),
     Struct("Holder", <<<<Str(S_m), m>>>>),
     TupleVariant(S_Blue, <<m, I32(5)>>),
     CborTagEncode(Pat(1), m),
     StructVariant(S_Green, <<<<Str(S_m), m>>, <<Str(S_n), I32(5)>>>>)}

MapValues == BadMaps \cup Places(BadMap) \cup Places(GoodMap)

\* tagged values
TagValues ==
    {CborTagEncode(Pat(1), Seq_(<<I32(1), I32(-2)>>)),
     CborTagEncode(Pat(100000), Tuple(<<CborBytes(S_hi), Seq_(<<U8(1), U8(2)>>)>>)),
     CborTagEncode(<<0, 0, 0, 1, 0, 0, 0, 0>>, Str(S_hi)),
     CborTagEncode(Pat(24), U64(7)),
     CborTagEncode(Pat(5), Tuple(<<I32(1), U64(7)>>)),
     CborTagEncode(Pat(5), Vowels)}

\* variants: Red, Blue(String, i32), Green { s: String, n: i32 }, and struct
\* variants whose fields are composites
VariantValues ==
    {UnitVariant(S_Red),
     TupleVariant(S_Blue, <<Str(S_hi), I32(5)>>),
     TupleVariant(S_Blue, <<Vowels, I32(5)>>),
     StructVariant(S_Green, <<<<Str(S_s), Str(S_hi)>>, <<Str(S_n), I32(5)>>>>),
     StructVariant(S_Green, <<<<Str(S_s), Seq_(<<I32(1)>>)>>, <<Str(S_n), I32(5)>>>>),
     StructVariant(S_Green, <<<<Str(S_s), Vowels>>, <<Str(S_n), I32(5)>>>>),
     StructVariant(S_Green,
        <<<<Str(S_s), StructVariant(S_Blue, <<<<Str(S_a), I32(1)>>>>)>>,
          <<Str(S_n), Map(<<<<Str(S_a), I32(5)>>>>)>>>>)}

OtherValues ==
    {[k |-> "f32", bits |-> <<63, 128, 0, 0>>],
     [k |-> "f64", bits |-> <<255, 239, 255, 255, 255, 255, 255, 255>>],
     [k |-> "none"], [k |-> "some", v |-> I32(5)]}

Values ==
    PlainValues \cup BytesValues \cup MapValues \cup TagValues \cup VariantValues
    \cup OtherValues

\* the values written by the calls after a Serializer's first
FollowValues ==
    {Seq_(<<U8(1), U8(2), U8(255)>>), U64(0), I("i8", -25), Str(S_hi), Bool(TRUE),
     GoodMap, BadMap, Vowels, Tuple(<<Vowels, Seq_(<<Unit>>)>>),
     CborBytes(<<1, 2, 255>>), CborTagEncode(Pat(1), Seq_(<<I32(1), I32(-2)>>)),
     TupleVariant(S_Blue, <<Str(S_hi), I32(5)>>),
     StructVariant(S_Green, <<<<Str(S_s), Str(S_hi)>>, <<Str(S_n), I32(5)>>>>)}

(***************************************************************************)
(* The type a value is decoded as: T in cbor::deserialize::<T>             *)
(***************************************************************************)
RECURSIVE TypeOf(_)
TypeOf(v) ==
    LET types(items) == [i \in 1..Len(items) |-> TypeOf(items[i])]
        names(fields) == [i \in 1..Len(fields) |-> fields[i][1].s]
        ftypes(fields) == [i \in 1..Len(fields) |-> TypeOf(fields[i][2])]
    IN  CASE v.k \in UnsignedTypes \cup SignedTypes \cup {"bool", "unit", "f32", "f64"} ->
                [t |-> v.k]
          [] v.k = "str" -> StringT
          [] v.k \in {"none", "some"} -> [t |-> "option"]
          [] v.k = "seq" ->
                [t |-> "vec", e |-> IF v.items = <<>> THEN UnitT ELSE TypeOf(v.items[1])]
          [] v.k = "tuple" -> [t |-> "tuple", es |-> types(v.items)]
          [] v.k = "map" ->
                [t |-> "map", v |-> IF v.pairs = <<>> THEN UnitT ELSE TypeOf(v.pairs[1][2])]
          [] v.k = "struct" ->
                IF v.name = "CborTagEncode"
                THEN [t |-> "tagged", p |-> TypeOf(v.fields[2][2])]
                ELSE [t |-> "struct", name |-> v.name, names |-> names(v.fields),
                      es |-> ftypes(v.fields)]
          [] v.k = "tuple_struct" ->
                IF v.name = "CborBytes" THEN [t |-> "bytes"]
                ELSE [t |-> "tuple_struct", name |-> v.name, es |-> types(v.items)]
          [] v.k = "unit_variant" ->
                [t |-> "enum",
                 variants |-> <<[name |-> v.variant, shape |-> "unit", names |-> <<>>,
                                 es |-> <<>>]>>]
          [] v.k = "tuple_variant" ->
                [t |-> "enum",
                 variants |-> <<[name |-> v.variant, shape |-> "tuple", names |-> <<>>,
                                 es |-> types(v.items)]>>]
          [] v.k = "struct_variant" ->
                [t |-> "enum",
                 variants |-> <<[name |-> v.variant, shape |-> "struct",
                                 names |-> names(v.fields), es |-> ftypes(v.fields)]>>]

(***************************************************************************)
(* The state machine                                                       *)
(*   ser     the Serializer; ser.err is the result of its last serialize   *)
(*   serLog  one entry per serialize call: the value, the length of the    *)
(*           buffer and the flags before the call, and the call's result   *)
(*   de      the Deserializer                                              *)
(*   deLog   one entry per top-level decode: the target type and result    *)
(*   rf      a call of CborReader::read_full in progress, step by step     *)
(*   num     the arguments of a direct write_num / write_int call          *)
(*   cur     a SeqVisitor or MapVisitor driven call by call: the count its  *)
(*           header declared, self.len, and what its calls returned        *)
(***************************************************************************)
\* serialize calls per Serializer
MaxCalls == 2

\* iterations of the read_full loop that are followed
MaxSpins == 3

\* top-level values decoded from one input
MaxDecodes == 2

Flags(s) ==
    [emitting_key |-> s.emitting_key, byte_string |-> s.byte_string,
     tag |-> s.tag, skip_key |-> s.skip_key]

NoRf == [active |-> FALSE, n |-> 0, len |-> Pat(0), last |-> -1, result |-> "none",
         spins |-> 0, zeros |-> 0]

NoNum == [op |-> "none", major |-> 0, n |-> Pat(0), done |-> FALSE]

\* no SeqVisitor or MapVisitor has been made
NoCur == [kind |-> "none", declared |-> Pat(0), len |-> Pat(0), header |-> 0,
          hist |-> <<>>, values |-> 0, ended |-> "none", err |-> NoErr]

InitCommon ==
    /\ cur = NoCur
    /\ ser = from_memory
    /\ serLog = <<>>
    /\ de = from_bytes(<<>>, FALSE)
    /\ deLog = <<>>
    /\ rf = NoRf

Init == InitCommon /\ num = NoNum /\ phase = "ser"

\* Serializer::serialize(&[v]) on the Serializer as the previous calls left it
Serialize(v) ==
    /\ phase = "ser"
    /\ Len(serLog) < MaxCalls
    /\ serLog = <<>> \/ v \in FollowValues
    /\ LET s1 == serialize([ser EXCEPT !.err = NoError], v)
       IN  /\ ser' = s1
           /\ serLog' = Append(serLog, [v |-> v, start |-> Len(ser.buf),
                                        pre |-> Flags(ser), err |-> s1.err])
    /\ UNCHANGED <<de, deLog, rf, num, phase, cur>>

\* Deserializer::from_bytes(ser.as_bytes())
FromBytes ==
    /\ phase = "ser"
    /\ serLog # <<>>
    /\ de' = from_bytes(ser.buf, FALSE)
    /\ phase' = "de"
    /\ UNCHANGED <<ser, serLog, deLog, rf, num, cur>>

LogEntry(ty, r) == [ty |-> ty, kind |-> r.kind, val |-> r.val, err |-> r.err]

\* Deserialize::deserialize(&mut de) for the type of the next value written
Deserialize ==
    /\ phase = "de"
    /\ Len(deLog) < Len(serLog)
    /\ deLog # <<>> => deLog[Len(deLog)].kind = "ok"
    /\ LET ty == TypeOf(serLog[Len(deLog) + 1].v)
           r == deserialize(de, ty)
       IN  /\ de' = r.d
           /\ deLog' = Append(deLog, LogEntry(ty, r))
    /\ UNCHANGED <<ser, serLog, rf, num, phase, cur>>

Next ==
    \/ \E v \in Values : Serialize(v)
    \/ FromBytes
    \/ Deserialize

Spec == Init /\ [][Next]_vars

(***************************************************************************)
(* write_num and write_int on their own: the arguments are drawn by the    *)
(* initial state, the one call is made on a Serializer as constructed      *)
(***************************************************************************)
\* the major types
Majors == 0..7

\* magnitudes around every width's limit, and some well inside a width
Magnitudes ==
    {Pat(0), Pat(1), Pat(22), Pat(23), Pat(24), Pat(25), Pat(100), Pat(254), Pat(255),
     Pat(256), Pat(257), Pat(1000), Pat(65534), Pat(65535), Pat(65536), Pat(65537),
     Pat(1000000), <<0, 0, 0, 0, 255, 255, 255, 254>>, U32_MAX,
     <<0, 0, 0, 1, 0, 0, 0, 0>>, <<0, 0, 0, 1, 0, 0, 0, 1>>, <<0, 0, 1, 0, 0, 0, 0, 23>>,
     <<1, 0, 0, 0, 0, 0, 0, 0>>, I64_MAX, <<128, 0, 0, 0, 0, 0, 0, 0>>, AllOnes}

\* i64 arguments: the magnitudes read as i64, and -1-n for each that is >= 0
SignedArguments ==
    Magnitudes \cup {MinusOneMinus(n) : n \in {m \in Magnitudes : ~IsNeg(m)}}

InitNum ==
    /\ InitCommon
    /\ phase = "num"
    /\ num \in {[op |-> "write_num", major |-> m, n |-> n, done |-> FALSE] :
                    m \in Majors, n \in Magnitudes}
              \cup {[op |-> "write_int", major |-> 0, n |-> n, done |-> FALSE] :
                    n \in SignedArguments}

\* self.write_num(major, n)
WriteNum ==
    /\ phase = "num" /\ num.op = "write_num" /\ ~num.done
    /\ ser' = write_num(ser, num.major, num.n)
    /\ num' = [num EXCEPT !.done = TRUE]
    /\ UNCHANGED <<serLog, de, deLog, rf, phase, cur>>

\* self.write_int(n)
WriteInt ==
    /\ phase = "num" /\ num.op = "write_int" /\ ~num.done
    /\ ser' = write_int(ser, num.n)
    /\ num' = [num EXCEPT !.done = TRUE]
    /\ UNCHANGED <<serLog, de, deLog, rf, phase, cur>>

NextNum == WriteNum \/ WriteInt

SpecNum == InitNum /\ [][NextNum]_vars

(***************************************************************************)
(* Decoding bytes that no Serializer wrote.  The initial state draws the   *)
(* input and whether the allocator refuses a request larger than the       *)
(* input; the actions decode top-level values, or call read_full on the    *)
(* reader and follow its loop one iteration at a time.                     *)
(***************************************************************************)
\* every marker byte on its own
Markers == {<<m>> : m \in 0..255}

\* the two-byte simple values
SimpleValues == {<<248, c>> : c \in {0, 19, 20, 21, 22, 23, 24, 31, 32, 255}}

\* array headers that declare more elements than follow
ShortArrays ==
    {<<155, 0, 255, 255, 255, 0, 255, 255, 255>>, <<155, 1, 0, 0, 0, 0, 0, 0, 0>>,
     <<154, 0, 1, 0, 0, 5, 6>>, <<152, 200, 1, 2, 3>>, <<131, 1, 2>>, <<130, 1>>,
     <<129>>, <<130, 129, 1>>, <<130, 130, 1, 2>>}

\* text and byte string headers that declare more bytes than follow
ShortStrings ==
    {<<101, 97>>, <<97>>, <<120, 24, 97, 97>>, <<122, 0, 1, 0, 0, 97>>,
     <<123, 0, 0, 0, 1, 0, 0, 0, 0>>, <<123, 255, 255, 255, 255, 255, 255, 255, 255>>,
     <<69, 1>>, <<65>>, <<88, 200, 1, 2>>, <<91, 0, 0, 0, 1, 0, 0, 0, 0>>,
     <<91, 128, 0, 0, 0, 0, 0, 0, 0>>, <<129, 98, 97>>, <<161, 99, 97>>}

\* well-formed inputs, one value or two
WellFormed ==
    {<<>>, <<1, 2>>, <<24, 255, 32>>, <<98, 104, 105, 245>>, <<66, 1, 2>>, <<130, 1, 2, 3>>,
     <<131, 1, 2, 24, 255>>, <<161, 97, 97, 5>>, <<162, 97, 115, 99, 99, 119, 109, 97, 110, 1>>,
     <<99, 82, 101, 100>>, <<96, 64>>, <<128, 160>>, <<246, 244>>, <<97, 255>>,
     <<251, 63, 240, 0, 0, 0, 0, 0, 0>>, <<27, 0, 0, 0, 1, 0, 0, 0, 0>>,
     <<59, 127, 255, 255, 255, 255, 255, 255, 255>>, <<59, 128, 0, 0, 0, 0, 0, 0, 0>>}

\* integers of major type 1 in each width, with the magnitudes at which the
\* signed width changes, small magnitudes in wide forms, and magnitudes above
\* i64::MAX
NegativeIntegers ==
    {<<56, 5>>, <<56, 127>>, <<56, 128>>, <<56, 255>>,
     <<57, 0, 5>>, <<57, 0, 200>>, <<57, 127, 255>>, <<57, 128, 0>>, <<57, 255, 255>>,
     <<58, 0, 0, 0, 5>>, <<58, 0, 0, 128, 0>>, <<58, 127, 255, 255, 255>>,
     <<58, 128, 0, 0, 0>>, <<58, 255, 255, 255, 255>>,
     <<59, 0, 0, 0, 0, 0, 0, 0, 5>>, <<59, 0, 0, 0, 0, 255, 255, 255, 255>>,
     <<59, 0, 0, 0, 1, 0, 0, 0, 0>>, <<59, 255, 255, 255, 255, 255, 255, 255, 255>>}

\* the variants Red, Blue("hi", 5) and Green { s: "hi", n: 5 } on the wire, also
\* followed by another item and with the count 1 in a length byte; variant maps
\* of the counts 0 and 2; names of no variant
VariantInputs ==
    {<<99, 82, 101, 100, 1>>,
     <<161, 100, 66, 108, 117, 101, 130, 98, 104, 105, 5>>,
     <<161, 100, 66, 108, 117, 101, 130, 98, 104, 105, 5, 1>>,
     <<161, 101, 71, 114, 101, 101, 110, 130, 98, 104, 105, 5>>,
     <<184, 1, 100, 66, 108, 117, 101, 130, 98, 104, 105, 5>>,
     <<162, 100, 66, 108, 117, 101, 130, 98, 104, 105, 5, 99, 82, 101, 100, 246>>,
     <<184, 2, 100, 66, 108, 117, 101, 130, 98, 104, 105, 5>>,
     <<160, 99, 82, 101, 100>>, <<184, 0>>,
     <<161, 99, 82, 101, 100, 246>>, <<100, 66, 108, 117, 101>>, <<99, 97, 98, 99>>,
     <<161, 99, 97, 98, 99, 128>>}

Inputs ==
    Markers \cup SimpleValues \cup ShortArrays \cup ShortStrings \cup WellFormed
    \cup NegativeIntegers \cup VariantInputs

\* enum Color { Red, Blue(String, i32), Green { s: String, n: i32 } }
Color ==
    [t |-> "enum",
     variants |-> <<[name |-> S_Red, shape |-> "unit", names |-> <<>>, es |-> <<>>],
                    [name |-> S_Blue, shape |-> "tuple", names |-> <<>>,
                     es |-> <<StringT, [t |-> "i32"]>>],
                    [name |-> S_Green, shape |-> "struct", names |-> <<S_s, S_n>>,
                     es |-> <<StringT, [t |-> "i32"]>>]>>]

\* the types T of cbor::deserialize::<T>
DecodeTypes ==
    {Color, [t |-> "u8"], [t |-> "u64"], [t |-> "i64"], [t |-> "bool"], UnitT, StringT,
     [t |-> "bytes"], [t |-> "f64"], [t |-> "option"],
     [t |-> "vec", e |-> [t |-> "u32"]], [t |-> "vec", e |-> [t |-> "vec", e |-> [t |-> "u8"]]],
     [t |-> "vec", e |-> StringT], [t |-> "tuple", es |-> <<[t |-> "u8"], [t |-> "u8"]>>],
     [t |-> "map", v |-> [t |-> "i32"]], TypeOf(Vowels), TypeOf(UnitVariant(S_Red))}

\* the buffer lengths read_full is called with
BufferLengths == {Pat(0), Pat(1), Pat(2), Pat(3), Pat(9), <<0, 0, 0, 1, 0, 0, 0, 0>>}

InitDec ==
    /\ cur = NoCur
    /\ ser = from_memory
    /\ serLog = <<>>
    /\ de \in {from_bytes(input, oom) : input \in Inputs, oom \in BOOLEAN}
    /\ deLog = <<>>
    /\ rf = NoRf
    /\ num = NoNum
    /\ phase = "dec"

\* Deserialize::deserialize(&mut de) for the type ty; a call is made only
\* after every earlier one has returned Ok
DeserializeAs(ty) ==
    /\ phase = "dec" /\ ~rf.active
    /\ Len(deLog) < MaxDecodes
    /\ deLog # <<>> => deLog[Len(deLog)].kind = "ok"
    /\ LET r == deserialize(de, ty)
       IN  /\ de' = r.d
           /\ deLog' = Append(deLog, LogEntry(ty, r))
    /\ UNCHANGED <<ser, serLog, rf, num, phase, cur>>

\* self.rdr.read_full(&mut buf) with a buffer of len bytes is entered:
\*     let mut n = 0usize;
ReadFullCall(len) ==
    /\ phase = "dec" /\ ~rf.active /\ deLog = <<>>
    /\ rf' = [NoRf EXCEPT !.active = TRUE, !.len = len]
    /\ UNCHANGED <<ser, serLog, de, deLog, num, phase, cur>>

\* one turn of the loop of read_full: the test n < buf.len(); when it fails
\* the call returns Ok(()), when it holds
\*     n += try!(self.read(&mut buf[n..]));
\* rf.last is what that read returned, rf.zeros counts the reads that returned 0
ReadFullStep ==
    /\ phase = "dec" /\ rf.active /\ rf.result = "none" /\ rf.spins < MaxSpins
    /\ IF ~LtLen(rf.n, rf.len)
       THEN /\ rf' = [rf EXCEPT !.result = "ok"]
            /\ UNCHANGED de
       ELSE LET r == read_full_step(de, rf.n, rf.len)
            IN  /\ de' = r.d
                /\ rf' = [rf EXCEPT !.n = r.n, !.last = r.n - rf.n, !.spins = @ + 1,
                                    !.zeros = @ + (IF r.n = rf.n THEN 1 ELSE 0)]
    /\ UNCHANGED <<ser, serLog, deLog, num, phase, cur>>

NextDec ==
    \/ \E ty \in DecodeTypes : DeserializeAs(ty)
    \/ \E len \in BufferLengths : ReadFullCall(len)
    \/ ReadFullStep

SpecDec == InitDec /\ [][NextDec]_vars

(***************************************************************************)
(* A SeqVisitor or MapVisitor on its own.  The initial state draws an      *)
(* input that starts with an array or a map; Open reads the header as      *)
(* read_array and read_map do and makes the cursor; the other actions are  *)
(* the calls a serde visitor may make on it, in any order and number.      *)
(***************************************************************************)
\* calls of visit / visit_key on one cursor
MaxPulls == 4

\* arrays of one-byte integers and maps from one-letter names to one-byte
\* integers: empty, exact, followed by more items, and shorter than declared
CursorInputs ==
    {<<128>>, <<128, 1>>, <<129, 1>>, <<130, 1, 2>>, <<130, 1, 2, 3>>, <<131, 1, 2, 3>>,
     <<131, 1, 2>>, <<152, 3, 1, 2, 3, 4>>,
     <<160>>, <<160, 97, 97, 1>>, <<161, 97, 97, 5>>, <<161, 97, 97, 5, 97, 98, 6>>,
     <<162, 97, 97, 1, 97, 98, 2>>, <<162, 97, 97, 1>>, <<184, 2, 97, 97, 1, 97, 98, 2, 97>>}

\* the types asked of the cursor
ElementTypes == {[t |-> "u8"], StringT}

InitCur ==
    /\ cur = NoCur
    /\ ser = from_memory
    /\ serLog = <<>>
    /\ de \in {from_bytes(input, FALSE) : input \in CursorInputs}
    /\ deLog = <<>>
    /\ rf = NoRf
    /\ num = NoNum
    /\ phase = "cur"

\* visit, read_value and read_array / read_map up to
\*     visitor.visit_seq(SeqVisitor { deserializer: self, len: len })
\*     visitor.visit_map(MapVisitor { deserializer: self, len: len })
Open ==
    /\ phase = "cur" /\ cur.kind = "none"
    /\ LET first == read_marker(de)
           major == Shr(BitAnd(first.bytes[1], 224), 5)
           len == read_len(first.d, first.bytes[1])
       IN  /\ first.ok /\ major \in {4, 5} /\ len.kind = "ok"
           /\ de' = len.d
           /\ cur' = [NoCur EXCEPT !.kind = IF major = 4 THEN "seq" ELSE "map",
                                   !.declared = len.val.b, !.len = len.val.b,
                                   !.header = len.d.pos]
    /\ UNCHANGED <<ser, serLog, deLog, rf, num, phase>>

\* what a call of visit / visit_key returned
Pulled(v) == IF v.res.kind # "ok" THEN "err" ELSE IF v.some THEN "some" ELSE "none"

\* a call may follow unless an earlier one returned an error (try! has left
\* the visitor) or end() has been called
Usable(kind) ==
    /\ phase = "cur" /\ cur.kind = kind /\ cur.ended = "none"
    /\ \A j \in 1..Len(cur.hist) : cur.hist[j] # "err"

\* SeqVisitor::visit::<T>()
SeqVisit(ety) ==
    /\ Usable("seq") /\ Len(cur.hist) < MaxPulls
    /\ LET v == SeqVisitor_visit(de, cur.len, ety)
       IN  /\ de' = v.res.d
           /\ cur' = [cur EXCEPT !.len = v.len, !.hist = Append(@, Pulled(v))]
    /\ UNCHANGED <<ser, serLog, deLog, rf, num, phase>>

\* SeqVisitor::end()
SeqEnd ==
    /\ Usable("seq")
    /\ LET e == SeqVisitor_end(de, cur.len)
       IN  /\ de' = e.d
           /\ cur' = [cur EXCEPT !.ended = e.kind, !.err = e.err]
    /\ UNCHANGED <<ser, serLog, deLog, rf, num, phase>>

\* the calls of visit / visit_key that returned Some
Somes == Cardinality({j \in 1..Len(cur.hist) : cur.hist[j] = "some"})

\* MapVisitor::visit_key::<T>(), after the value of the key before
MapKey(kty) ==
    /\ Usable("map") /\ Len(cur.hist) < MaxPulls
    /\ cur.values = Somes
    /\ LET v == MapVisitor_visit_key(de, cur.len, kty)
       IN  /\ de' = v.res.d
           /\ cur' = [cur EXCEPT !.len = v.len, !.hist = Append(@, Pulled(v))]
    /\ UNCHANGED <<ser, serLog, deLog, rf, num, phase>>

\* MapVisitor::visit_value::<T>(), after a key
MapValue(vty) ==
    /\ Usable("map")
    /\ cur.values < Somes
    /\ LET r == MapVisitor_visit_value(de, vty)
       IN  /\ de' = r.d
           /\ cur' = IF r.kind = "ok" THEN [cur EXCEPT !.values = @ + 1]
                      ELSE [cur EXCEPT !.hist = Append(@, "err")]
    /\ UNCHANGED <<ser, serLog, deLog, rf, num, phase>>

\* MapVisitor::end()
MapEnd ==
    /\ Usable("map")
    /\ cur.values = Somes
    /\ LET e == MapVisitor_end(de, cur.len)
       IN  /\ de' = e.d
           /\ cur' = [cur EXCEPT !.ended = e.kind, !.err = e.err]
    /\ UNCHANGED <<ser, serLog, deLog, rf, num, phase>>

NextCur ==
    \/ Open
    \/ \E ety \in ElementTypes : SeqVisit(ety)
    \/ SeqEnd
    \/ \E kty \in ElementTypes : MapKey(kty)
    \/ \E vty \in ElementTypes : MapValue(vty)
    \/ MapEnd

SpecCur == InitCur /\ [][NextCur]_vars

(***************************************************************************)
(* Properties of encoding and of encoding followed by decoding             *)
(***************************************************************************)
\* the flags of a Serializer as from_memory constructs it
Clean(flags) == flags = Flags(from_memory)

\* the i-th value written was encoded without an error and, once it has been
\* decoded, was decoded without an error to the value written
RoundTrips(i) ==
    /\ serLog[i].err.kind = "none"
    /\ i <= Len(deLog) => deLog[i].kind = "ok" /\ deLog[i].val = serLog[i].v

\* the bytes the i-th call appended to the buffer
Written(i) ==
    SubSeq(ser.buf, serLog[i].start + 1,
           IF i < Len(serLog) THEN serLog[i + 1].start ELSE Len(ser.buf))

\* the encoding of v on its own: by a Serializer as constructed
Alone(v) == serialize(from_memory, v).buf

\* the encodings of the values vs on their own, one after the other
RECURSIVE AloneAll(_)
AloneAll(vs) == IF vs = <<>> THEN <<>> ELSE Alone(Head(vs)) \o AloneAll(Tail(vs))

\* calls made on a Serializer whose flags were as constructed
CleanCalls == {i \in 1..Len(serLog) : Clean(serLog[i].pre)}

\* C1: a value built from integers of every width, booleans, unit, text and
\* nested sequences, tuples, string-keyed maps and plain structs is encoded
\* without an error by a Serializer whose flags are as constructed, and
\* decoding its bytes returns the value again and no error.
C1_RoundTrip ==
    \A i \in 1..Len(serLog) :
        (serLog[i].v \in PlainValues /\ Clean(serLog[i].pre)) => RoundTrips(i)

\* a nested plain struct and the most negative 64-bit integer have both been
\* written and decoded back
C1_Witness ==
    /\ Len(deLog) = 2
    /\ serLog[1].v = [k |-> "i64", b |-> MinusOneMinus(I64_MAX)]
    /\ serLog[2].v = Tuple(<<Vowels, Seq_(<<Unit>>)>>)
    /\ \A i \in 1..2 : deLog[i].kind = "ok" /\ deLog[i].val = serLog[i].v

\* the number of bytes that follow the marker when the magnitude n is written
\* in the smallest of the widths 0 (inline), 1, 2, 4, 8 that holds it
CanonicalWidth(n) ==
    LET significant == 8 - LeadingZeros(n)
    IN  IF significant = 0 \/ (significant = 1 /\ n[8] <= 23) THEN 0
        ELSE IF significant = 1 THEN 1
        ELSE IF significant = 2 THEN 2
        ELSE IF significant <= 4 THEN 4
        ELSE 8

\* the bytes of the magnitude n under the major type m: the marker 32*m + ai,
\* then n in big-endian in its canonical width
Canonical(m, n) ==
    LET w == CanonicalWidth(n)
        ai == CASE w = 0 -> n[8] [] w = 1 -> 24 [] w = 2 -> 25 [] w = 4 -> 26 [] w = 8 -> 27
    IN  <<32 * m + ai>> \o SubSeq(n, 9 - w, 8)

\* C2: write_num(m, n) emits the marker (m<<5)|ai followed by n in big-endian
\* in the smallest width that holds it (1, 2, 3, 5 or 9 bytes in total), for
\* every major type and magnitude; write_int(v) writes v >= 0 under major
\* type 0 and v < 0 as the magnitude -1-v under major type 1 by the same rule.
C2_CanonicalWidth ==
    num.done =>
        /\ ser.err = NoError
        /\ num.op = "write_num" => ser.buf = Canonical(num.major, num.n)
        /\ (num.op = "write_int" /\ num.n[1] < 128) => ser.buf = Canonical(0, num.n)
        /\ (num.op = "write_int" /\ num.n[1] >= 128) =>
                ser.buf = Canonical(1, [i \in 1..8 |-> 255 - num.n[i]])
        /\ Len(ser.buf) \in {1, 2, 3, 5, 9}

\* 4294967296 has been written under major type 5 in nine bytes
C2_Witness ==
    /\ num.done /\ num.op = "write_num" /\ num.major = 5
    /\ num.n = <<0, 0, 0, 1, 0, 0, 0, 0>>
    /\ ser.buf = <<187, 0, 0, 0, 1, 0, 0, 0, 0>>

\* C3: encoding a map whose key is not a text string fails with InvalidMapKey
\* wherever the map occurs (at top level, in a sequence, as a map value, as a
\* struct field, in a variant, in a tag's payload, as a field of a struct
\* variant), and the same map with a string key is encoded without an error.
C3_InvalidMapKey ==
    \A i \in CleanCalls :
        /\ serLog[i].v \in BadMaps \cup Places(BadMap) =>
                serLog[i].err.kind = "InvalidMapKey"
        /\ serLog[i].v \in Places(GoodMap) => serLog[i].err.kind = "none"

\* a struct variant whose field is the map {5: 5} has been encoded without an
\* error, and the key is missing from the bytes
C3_KeyDropped ==
    /\ Len(serLog) = 1
    /\ serLog[1].v = StructVariant(S_Green, <<<<Str(S_m), BadMap>>, <<Str(S_n), I32(5)>>>>)
    /\ serLog[1].err.kind = "none"
    /\ ser.buf = <<161, 101>> \o S_Green \o <<130, 161, 5, 5>>

\* a tagged value CborTagEncode::new(t, &p)
IsTagged(v) == v.k = "struct" /\ v.name = "CborTagEncode"

\* C5: a tagged value with tag number t and payload p is encoded as t in
\* canonical width under major type 6 followed by the bytes of p encoded on
\* its own, and decoding the bytes as a number and a value returns t and p.
C5_TagEncoding ==
    \A i \in CleanCalls :
        (IsTagged(serLog[i].v) /\ serLog[i].v \in TagValues \cup Places(GoodMap)) =>
            /\ Written(i) = Canonical(6, serLog[i].v.fields[1][2].b)
                             \o Alone(serLog[i].v.fields[2][2])
            /\ RoundTrips(i)

\* the payload 7u64 of the tag 24 has been written as the marker of tag 7
C5_PayloadAsTag ==
    /\ Len(serLog) = 1
    /\ serLog[1].v = CborTagEncode(Pat(24), U64(7))
    /\ serLog[1].err.kind = "none"
    /\ ser.buf = <<216, 24, 199>>

\* text as the Serializer writes it: the length under major type 3, the bytes
Text(str) == Canonical(3, Pat(Len(str))) \o str

\* the shape of a variant on the wire
VariantShape(v) ==
    CASE v.k = "unit_variant" -> Text(v.variant)
      [] v.k = "tuple_variant" ->
            <<161>> \o Text(v.variant) \o Canonical(4, Pat(Len(v.items)))
            \o AloneAll(v.items)
      [] v.k = "struct_variant" ->
            <<161>> \o Text(v.variant) \o Canonical(4, Pat(Len(v.fields)))
            \o AloneAll([j \in 1..Len(v.fields) |-> v.fields[j][2]])

\* C6: a unit variant is encoded as the text of its name, a tuple or struct
\* variant as a map header of count 1, the name, an array header with the
\* number of fields and the field values in order, each as encoded on its
\* own; decoding the bytes as the same sum type returns the same variant.
C6_Variant ==
    \A i \in CleanCalls :
        (/\ serLog[i].v.k \in {"unit_variant", "tuple_variant", "struct_variant"}
         /\ serLog[i].v \in VariantValues \cup Places(GoodMap)) =>
            /\ serLog[i].err.kind = "none"
            /\ Written(i) = VariantShape(serLog[i].v)
            /\ RoundTrips(i)

\* a struct variant whose field is a plain struct has lost the struct's field
\* names on the wire and is not decoded back
C6_FieldNamesLost ==
    /\ Len(deLog) = 1
    /\ serLog[1].v = StructVariant(S_Green, <<<<Str(S_s), Vowels>>, <<Str(S_n), I32(5)>>>>)
    /\ ser.buf = <<161, 101>> \o S_Green \o <<130, 162, 99>> \o S_cwm \o <<1, 5>>
    /\ deLog[1].kind = "err"

\* the values of the items of a sequence of u8
BytesOf(items) == [j \in 1..Len(items) |-> items[j].b[8]]

IsCborBytes(v) == v.k = "tuple_struct" /\ v.name = "CborBytes"

IsByteSeq(v) == v.k = "seq" /\ v.items # <<>> /\ \A j \in 1..Len(v.items) : v.items[j].k = "u8"

\* C7: CborBytes(b) with n bytes is encoded as n in canonical width under major
\* type 2 followed by the n raw bytes, and decoded back to CborBytes(b); a plain
\* sequence of n bytes is encoded as n under major type 4 followed by n
\* integer items, also when it is written after a CborBytes by the same
\* Serializer.
C7_ByteString ==
    \A i \in 1..Len(serLog) :
        LET v == serLog[i].v
            afterBytes == i > 1 /\ i - 1 \in CleanCalls /\ IsCborBytes(serLog[i - 1].v)
        IN  /\ (i \in CleanCalls /\ IsCborBytes(v)) =>
                    /\ serLog[i].err.kind = "none"
                    /\ Written(i) = Canonical(2, Pat(Len(v.items[1].items)))
                                     \o BytesOf(v.items[1].items)
                    /\ RoundTrips(i)
            /\ ((i \in CleanCalls \/ afterBytes) /\ IsByteSeq(v)) =>
                    /\ Written(i) = Canonical(4, Pat(Len(v.items)))
                                     \o AloneAll(v.items)
                    /\ \A j \in 1..Len(v.items) :
                            Alone(v.items[j]) = Canonical(0, v.items[j].b)
                    /\ RoundTrips(i)

\* a plain sequence of bytes has been written after a CborBytes of the same
\* bytes, and both have been decoded back
C7_Witness ==
    /\ Len(deLog) = 2
    /\ serLog[1].v = CborBytes(<<1, 2, 255>>)
    /\ serLog[2].v = Seq_(<<U8(1), U8(2), U8(255)>>)
    /\ ser.buf = <<67, 1, 2, 255, 131, 1, 2, 24, 255>>
    /\ \A i \in 1..2 : deLog[i].kind = "ok" /\ deLog[i].val = serLog[i].v

\* every call so far returned Ok and wrote what a Serializer as constructed
\* writes for its value: the buffer is encode(v1) encode(v2) ... encode(vk)
Stream ==
    \A i \in 1..Len(serLog) :
        serLog[i].err.kind = "none" /\ Written(i) = Alone(serLog[i].v)

\* the offset in the buffer at which the bytes of the k-th value end
EndOf(k) == IF k < Len(serLog) THEN serLog[k + 1].start ELSE Len(ser.buf)

\* the bytes of v on their own are decoded to v
DecodesAlone(v) ==
    Bind(deserialize(from_bytes(Alone(v), FALSE), TypeOf(v)), LAMBDA r :
        r.kind = "ok" /\ r.val = v)

\* C11: when the input is encode(v1) followed by encode(v2) ..., a top-level
\* decode that returns Ok has consumed the bytes of its value and no more and
\* leaves the lookahead slot empty, and successive decodes return v1, v2, ...
\* in that order, variants (decoded by peeking the marker) included.
C11_Concatenated ==
    (phase = "de" /\ Stream) =>
        /\ (deLog # <<>> /\ deLog[Len(deLog)].kind = "ok") =>
                /\ de.first = <<>>
                /\ de.buf = <<>>
                /\ de.pos = EndOf(Len(deLog))
        /\ \A i \in 1..Len(deLog) :
                DecodesAlone(serLog[i].v) =>
                    deLog[i].kind = "ok" /\ deLog[i].val = serLog[i].v

\* a unit variant and a tuple variant written one after the other have both
\* been decoded back, and the input is used up
C11_Witness ==
    /\ Len(deLog) = 2
    /\ serLog[1].v = UnitVariant(S_Red)
    /\ serLog[2].v = TupleVariant(S_Blue, <<Str(S_hi), I32(5)>>)
    /\ Stream
    /\ \A i \in 1..2 : deLog[i].kind = "ok" /\ deLog[i].val = serLog[i].v
    /\ de.pos = Len(ser.buf) /\ de.first = <<>>

\* the flags of the Serializer when the i-th call returned
FlagsAfter(i) == IF i < Len(serLog) THEN serLog[i + 1].pre ELSE Flags(ser)

\* C12: when the encoding of a value completes without an error on a
\* Serializer whose four flags were false, the four flags are false again,
\* and the next value written by the same Serializer gets the bytes and the
\* result it gets from a Serializer as constructed.
C12_FlagsReset ==
    \A i \in CleanCalls :
        serLog[i].err.kind = "none" =>
            /\ Clean(FlagsAfter(i))
            /\ i < Len(serLog) =>
                    /\ Written(i + 1) = Alone(serLog[i + 1].v)
                    /\ serLog[i + 1].err = serialize(from_memory, serLog[i + 1].v).err

\* a tagged value has been encoded without an error, the tag flag is still
\* set, and the u64 0 written next is the marker of tag 0
C12_TagStays ==
    /\ Len(serLog) = 2
    /\ serLog[1].v = CborTagEncode(Pat(1), Seq_(<<I32(1), I32(-2)>>))
    /\ serLog[1].err.kind = "none"
    /\ serLog[2].pre.tag
    /\ serLog[2].v = U64(0)
    /\ Written(2) = <<192>>

\* the values of the fields of a struct variant, in order
FieldValues(v) == [j \in 1..Len(v.fields) |-> v.fields[j][2]]

\* C17: a struct variant is written as its header (the map of count 1, the
\* name, the array header) followed by each field's value exactly as that
\* value is written on its own, a map or a struct with its keys; no field
\* name of the variant is written, after a nested struct variant either.
C17_FieldEncoding ==
    \A i \in CleanCalls :
        (serLog[i].v.k = "struct_variant" /\ serLog[i].err.kind = "none") =>
            LET v == serLog[i].v
                header == <<161>> \o Text(v.variant) \o Canonical(4, Pat(Len(v.fields)))
            IN  /\ SubSeq(Written(i), 1, Len(header)) = header
                /\ SubSeq(Written(i), Len(header) + 1, Len(Written(i)))
                        = AloneAll(FieldValues(v))

\* a struct variant whose first field is a struct variant and whose second
\* field n is a map has been written with the name "n" behind the nested
\* variant, whose own field is written without its name
C17_NameAfterNested ==
    /\ Len(serLog) = 1
    /\ serLog[1].v = StructVariant(S_Green,
            <<<<Str(S_s), StructVariant(S_Blue, <<<<Str(S_a), I32(1)>>>>)>>,
              <<Str(S_n), Map(<<<<Str(S_a), I32(5)>>>>)>>>>)
    /\ serLog[1].err.kind = "none"
    /\ ser.buf = <<161, 101>> \o S_Green \o <<130, 161, 100>> \o S_Blue
                 \o <<129, 1, 97, 110, 161, 97, 97, 5>>

RECURSIVE HasNonStringKey(_)
\* v contains a map one of whose keys is not text
HasNonStringKey(v) ==
    CASE v.k = "map" ->
            \E j \in 1..Len(v.pairs) :
                \/ v.pairs[j][1].k # "str"
                \/ HasNonStringKey(v.pairs[j][2])
      [] v.k \in {"seq", "tuple", "tuple_struct", "tuple_variant"} ->
            \E j \in 1..Len(v.items) : HasNonStringKey(v.items[j])
      [] v.k \in {"struct", "struct_variant"} ->
            \E j \in 1..Len(v.fields) : HasNonStringKey(v.fields[j][2])
      [] v.k = "some" -> HasNonStringKey(v.v)
      [] OTHER -> FALSE

\* C18: on one Serializer, a serialize call returns InvalidMapKey only if
\* the value given to that call contains a map with a key that is not text,
\* whatever the earlier calls returned.
C18_NoSpuriousKeyError ==
    \A i \in 1..Len(serLog) :
        serLog[i].err.kind = "InvalidMapKey" => HasNonStringKey(serLog[i].v)

\* a call with a map keyed by an integer has failed, and the next call, with
\* an unsigned integer, starts with emitting_key set and fails the same way
\* without writing a byte
C18_KeyFlagStays ==
    /\ Len(serLog) = 2
    /\ serLog[1].v = BadMap
    /\ serLog[1].err.kind = "InvalidMapKey"
    /\ serLog[2].v = U64(0)
    /\ serLog[2].pre.emitting_key
    /\ serLog[2].err.kind = "InvalidMapKey"
    /\ Len(ser.buf) = serLog[2].start

(***************************************************************************)
(* Properties of decoding                                                  *)
(***************************************************************************)
\* C4: decoding any byte sequence returns a value or a CborError; no input
\* makes the decoder panic or reach an unreachable branch.
C4_NoPanic == \A i \in 1..Len(deLog) : deLog[i].kind # "panic"

\* decoding the marker 0xF7 (major type 7, additional information 23) as a
\* bool has panicked
C4_Panicked ==
    /\ de.input = <<247>>
    /\ Len(deLog) = 1 /\ deLog[1].ty.t = "bool" /\ deLog[1].kind = "panic"

\* C8: decoding an array whose header declares more elements than follow
\* returns a decode error, and the elements decoded before it are at most as
\* many as the bytes of the input.
C8_HostileArrayLength ==
    (de.input \in ShortArrays /\ deLog # <<>>) =>
        /\ deLog[1].kind = "err"
        /\ de.pulled < Len(de.input)
        /\ de.alloc = NoAlloc

\* the array of three elements with two behind its header has been decoded as
\* Vec<u32>: two elements, then the I/O error
C8_Witness ==
    /\ de.input = <<131, 1, 2>>
    /\ Len(deLog) = 1 /\ deLog[1].ty = [t |-> "vec", e |-> [t |-> "u32"]]
    /\ deLog[1].kind = "err" /\ deLog[1].err.e = "Io"
    /\ de.pulled = 2

\* C9: the buffer allocated for the content of a text or byte string is never
\* larger than the bytes that remain in the input, and no allocation ends the
\* process.
C9_BoundedAllocation ==
    /\ de.alloc # NoAlloc => LeNat(de.alloc, de.avail)
    /\ \A i \in 1..Len(deLog) : deLog[i].kind # "abort"

\* a byte string header declaring 2^32 bytes with none behind it has made the
\* decoder ask for 2^32 bytes
C9_Oversized ==
    /\ de.input = <<91, 0, 0, 0, 1, 0, 0, 0, 0>>
    /\ deLog # <<>>
    /\ de.alloc = <<0, 0, 0, 1, 0, 0, 0, 0>> /\ de.avail = 0

\* C10: read_full returns Ok only when the buffer has been filled, returns
\* an I/O error when a read returns 0 bytes before that, and decoding a text
\* or byte string longer than the remaining input returns.
C10_ReadFullTerminates ==
    /\ rf.result = "ok" => ~LtLen(rf.n, rf.len)
    /\ rf.zeros > 0 => rf.result = "err"
    /\ \A i \in 1..Len(deLog) : deLog[i].kind # "hang"

\* read_full has read again after a read that returned 0 bytes, and returned 0
\* bytes again
C10_ReadsAgain == rf.active /\ rf.zeros = 2 /\ rf.result = "none"

\* the error a marker with a malformed additional information is to be
\* answered with: <<kind, additional information>>, or <<>> when the input is
\* not of that sort
MalformedAdd(input) ==
    IF input = <<>> THEN <<>>
    ELSE LET major == Shr(BitAnd(input[1], 224), 5)
             add == BitAnd(input[1], 31)
         IN  IF major <= 6 /\ add \in 28..31 THEN <<"InvalidAddValue", add>>
             ELSE IF major = 7 /\ add \in (0..19) \cup (28..30) THEN <<"Unassigned", add>>
             ELSE IF major = 7 /\ add = 24 /\ Len(input) >= 2 THEN
                 IF input[2] \in 24..31 THEN <<"Reserved", input[2]>>
                 ELSE IF input[2] \in (0..19) \cup (32..255) THEN <<"Unassigned", input[2]>>
                 ELSE <<>>
             ELSE <<>>

\* the result r is the error expected, with major type 7 named by the
\* Unassigned and Reserved errors
IsTypedError(r, expected) ==
    /\ r.kind = "err"
    /\ r.err.e = expected[1]
    /\ r.err.val = expected[2]
    /\ expected[1] \in {"Unassigned", "Reserved"} => r.err.ty = "7"

NegativeItem(input) ==
    IF input = <<>> \/ Shr(BitAnd(input[1], 224), 5) # 1 THEN <<>>
    ELSE LET add == BitAnd(input[1], 31)
             follow == CASE add = 24 -> 1 [] add = 25 -> 2 [] add = 26 -> 4
                         [] add = 27 -> 8 [] OTHER -> 0
         IN  IF add <= 23 THEN <<Pat(add), 8>>
             ELSE IF add <= 27 /\ Len(input) >= 1 + follow
             THEN <<ZeroExt(SubSeq(input, 2, 1 + follow)), 8 * follow>>
             ELSE <<>>

\* -1 - n for a magnitude n <= i64::MAX, as a 64-bit pattern: every bit of n
\* inverted
Complement(n) == [i \in 1..8 |-> 255 - n[i]]

\* the bits of the smallest signed type that holds -1 - n
SmallestSigned(n) ==
    IF LePat(n, Pat(127)) THEN 8
    ELSE IF LePat(n, Pat(32767)) THEN 16
    ELSE IF LePat(n, I32_MAX) THEN 32
    ELSE 64

VisitMethod(bits) ==
    CASE bits = 8 -> "visit_i8" [] bits = 16 -> "visit_i16" [] bits = 32 -> "visit_i32"
      [] bits = 64 -> "visit_i64"

\* the first decode of a negative integer, as i64, returned -1 - n, or the
\* range error when n > i64::MAX; the range error is returned for every target
\* type but a sum type
NegativeDelivered ==
    (deLog # <<>> /\ NegativeItem(de.input) # <<>>) =>
        LET n == NegativeItem(de.input)[1]
            r == deLog[1]
        IN  IF LePat(n, I64_MAX)
            THEN r.ty.t = "i64" => r.kind = "ok" /\ r.val = [k |-> "i64", b |-> Complement(n)]
            ELSE r.ty.t = "enum" \/
                    /\ r.kind = "err" /\ r.err.e = "Other"
                    /\ r.err.ty = "Negative integer out of range"

\* C14 as stated: a negative integer of magnitude n, in any wire width, is
\* delivered as -1 - n through the visitor method of 8 bits when n <= 127, of
\* 16 bits when n <= 32767, of 32 bits when n <= 2^31 - 1, else of 64 bits;
\* n > 2^63 - 1 is a range error.
C14_SmallestWidth ==
    /\ NegativeDelivered
    /\ (Len(deLog) = 1 /\ NegativeItem(de.input) # <<>> /\ de.visited # "") =>
            de.visited = VisitMethod(SmallestSigned(NegativeItem(de.input)[1]))

Max(a, b) == IF a >= b THEN a ELSE b

\* C14: a negative integer of magnitude n is delivered as -1 - n, never
\* wrapped, through the visitor method of the smallest signed width that holds
\* -1 - n and is not narrower than the width of the wire form (8 bits for the
\* inline and one-byte forms, 16, 32, 64 bits for the forms of 2, 4, 8
\* bytes); n > 2^63 - 1 is a range error.
C14_NegativeInteger ==
    /\ NegativeDelivered
    /\ (Len(deLog) = 1 /\ NegativeItem(de.input) # <<>> /\ de.visited # "") =>
            de.visited = VisitMethod(Max(SmallestSigned(NegativeItem(de.input)[1]),
                                         NegativeItem(de.input)[2]))

\* the magnitude 255 in the one-byte form has been delivered as -256 through
\* visit_i16
C14_Witness ==
    /\ de.input = <<56, 255>>
    /\ Len(deLog) = 1 /\ deLog[1].ty.t = "i64" /\ deLog[1].kind = "ok"
    /\ deLog[1].val.b = <<255, 255, 255, 255, 255, 255, 255, 0>>
    /\ de.visited = "visit_i16"

(***************************************************************************)
(* Properties of the pull cursors                                          *)
(***************************************************************************)
\* C15: a cursor made for the declared count N returns an element (a key)
\* for each of its first N calls and None for every later call, and decodes
\* no item beyond the N-th (the N-th pair); each visit_value consumes one
\* item, so that a map read to its end has consumed 2N items; end() returns
\* Ok exactly when N elements (keys) have been handed out, and the error
\* "Unexpected end of array" otherwise.
C15_PullCount ==
    cur.kind # "none" =>
        /\ \A j \in 1..Len(cur.hist) :
                cur.hist[j] \in {"some", "none"} =>
                    (cur.hist[j] = "some" <=> LtLen(j - 1, cur.declared))
        /\ LePat(Pat(Somes), cur.declared)
        /\ (\A j \in 1..Len(cur.hist) : cur.hist[j] # "err") =>
                de.pos = cur.header + (IF cur.kind = "seq" THEN Somes
                                       ELSE 2 * Somes + cur.values)
        /\ (cur.kind = "map" /\ Pat(Somes) = cur.declared /\ cur.values = Somes) =>
                de.pos = cur.header + 3 * ToNat(cur.declared)
        /\ cur.ended # "none" =>
                IF Pat(Somes) = cur.declared THEN cur.ended = "ok"
                ELSE /\ cur.ended = "err"
                     /\ cur.err.e = "Other" /\ cur.err.ty = "Unexpected end of array"

\* the cursor of an array of two elements, with a third item behind them, has
\* handed out two elements, then None twice, and end() returned Ok with the
\* third item not read
C15_Witness ==
    /\ de.input = <<130, 1, 2, 3>>
    /\ cur.hist = <<"some", "some", "none", "none">>
    /\ cur.ended = "ok"
    /\ de.pos = 3

(***************************************************************************)
(* Properties of decoding a sum type                                       *)
(***************************************************************************)
\* the values of Color on the inputs
ColorValues ==
    {UnitVariant(S_Red), TupleVariant(S_Blue, <<Str(S_hi), I32(5)>>),
     StructVariant(S_Green, <<<<Str(S_s), Str(S_hi)>>, <<Str(S_n), I32(5)>>>>)}

\* the wire forms of a variant: the text of a unit variant; the map of count 1,
\* with the count in the marker or in a length byte
WireForms(v) ==
    IF v.k = "unit_variant" THEN {VariantShape(v)}
    ELSE {VariantShape(v), <<184, 1>> \o Tail(VariantShape(v))}

StartsWith(input, bytes) ==
    Len(input) >= Len(bytes) /\ SubSeq(input, 1, Len(bytes)) = bytes

\* the pair count a map header declares, in the marker or in one length byte;
\* -1 when the input does not start with such a header
PairCount(input) ==
    IF input = <<>> \/ Shr(BitAnd(input[1], 224), 5) # 5 THEN -1
    ELSE IF BitAnd(input[1], 31) <= 23 THEN BitAnd(input[1], 31)
    ELSE IF BitAnd(input[1], 31) = 24 /\ Len(input) >= 2 THEN input[2]
    ELSE -1

\* the structural error with the given message, and no variant
StructuralError(r, msg) ==
    r.kind = "err" /\ r.err.e = "Other" /\ r.err.ty = msg /\ r.val = NoVal

\* C16: decoded as a sum type, a text string is taken as the name of a unit
\* variant and its marker is consumed once; a map of count 1 gives the variant
\* named by its key with the fields read from the array that follows; a map
\* of another count and a marker of major type 0, 1, 2, 4, 6 or 7 return a
\* structural error and no variant, the marker of the latter peeked and not
\* consumed.
C16_VariantDispatch ==
    (deLog # <<>> /\ deLog[1].ty = Color /\ de.input # <<>>) =>
        LET r == deLog[1]
            major == Shr(BitAnd(de.input[1], 224), 5)
        IN  /\ major \notin {3, 5} =>
                    /\ StructuralError(r, "Expected variant map")
                    /\ Len(deLog) = 1 => de.first = <<de.input[1]>> /\ de.pos = 1
            /\ (major = 5 /\ PairCount(de.input) \notin {-1, 1}) =>
                    StructuralError(r, "Too many fields in variant map")
            /\ \A v \in ColorValues : \A w \in WireForms(v) :
                    StartsWith(de.input, w) =>
                        /\ r.kind = "ok" /\ r.val = v
                        /\ Len(deLog) = 1 => de.pos = Len(w) /\ de.first = <<>>

\* the map {"Blue": ["hi", 5]} followed by another item has been decoded as
\* Color::Blue("hi", 5), and the item behind it has not been read
C16_Witness ==
    /\ de.input = <<161, 100, 66, 108, 117, 101, 130, 98, 104, 105, 5, 1>>
    /\ Len(deLog) = 1 /\ deLog[1].ty = Color
    /\ deLog[1].kind = "ok"
    /\ deLog[1].val = TupleVariant(S_Blue, <<Str(S_hi), I32(5)>>)
    /\ de.pos = 11 /\ de.first = <<>>

====
